---- MODULE Spec2Model ----
(***************************************************************************)
(* The durable webhook delivery queue of the WhatsApp gateway.             *)
(*                                                                         *)
(* The store operations are those of src/config/database.lite.js (the db   *)
(* object of lines 620-2633, "Webhook Delivery Queue (durable retries)").  *)
(* Each of them is one Supabase request, i.e. one SQL statement, and is    *)
(* therefore one atomic step on the table.  The BEFORE UPDATE trigger of   *)
(* src/schema.sql stamps updated_at on every update.                       *)
(*                                                                         *)
(* The worker loop (utils/webhookDeliveryService.js) is not part of the    *)
(* sources; its steps follow section 4.3 / 4.4 of the specification: poll  *)
(* the due records, and for each: claim, POST, then complete or fail.      *)
(*                                                                         *)
(* Time is counted in slots of 30 seconds (the base back-off delay).       *)
(***************************************************************************)
EXTENDS Integers, Sequences, FiniteSets, TLC

\* ---------------------------------------------------------------- bounds
NumWorkers == 2       \* worker threads (instances, or overlapping ticks)
MaxTime == 2          \* the clock stops at this slot
MaxRetriesBound == 3  \* max_retries of an enqueued record is in 1..this
MaxMinutes == 1       \* resetStuck is called with 1..this minutes
NumHooks == 2         \* webhooks an account can configure

Workers == 1..NumWorkers

\* the rows the table can hold.  One row: no store statement relates two
\* rows (each filters on the id or on the row's own columns).
Ids == {1}

\* ------------------------------------------------------------- constants
\* 60000 ms per minute in resetStuckWebhookDeliveries = 2 slots of 30 s
SlotsPerMinute == 2

\* max_retries INTEGER DEFAULT 5
DefaultMaxRetries == 5

Statuses == {"pending", "processing", "success", "failed", "dead_letter"}
Claimable == {"pending", "failed"}

\* store faults an error-returning Supabase request can show
StoreErrors == {"none", "missing", "other"}

\* the outcome of one POST: a status code, or 0 for a network-level failure
Outcomes == {200, 500, 0}

NoRow == [id |-> 0]
Null == [id |-> 0]

\* the rows of the webhooks table: (id, url, secret, headers, is_active);
\* a secret of "null" is no secret, headers is the set of custom headers
HookIds == 1..NumHooks
Urls == {"u1", "u2"}
Secrets == {"null", "s1"}
CustomHeaders == {{}, {<<"X-Custom", "c">>}}
NoHook == [id |-> 0]
Hooks == [id : HookIds, url : Urls, secret : Secrets, headers : CustomHeaders,
          is_active : BOOLEAN]

\* the events a process handles, in the order they arrive; an event is
\* its own body
Payloads == {1, 2}

\* rows enough for every event of every webhook
RowIds == 1..(NumHooks * Cardinality(Payloads))

\* no POST made yet
NoPost == [id |-> 0]

VARIABLES
  now,        \* the clock (slots)
  queue,      \* webhook_delivery_queue: Ids -> row or NoRow
  faulty,     \* TRUE when store requests may return an error
  pc,         \* worker -> "down" | "idle" | "batch" | "attempt" | "write"
  batch,      \* worker -> the rows its tick read with getDueWebhookDeliveries
  cur,        \* worker -> the row its claim returned, or Null
  outcome,    \* worker -> the outcome of its POST
  posts,      \* history: id -> number of POSTs made for the record
  claims,     \* history: id -> number of claims that returned the record
  cycles,     \* history: id -> number of claim-attempt-fail cycles ended
  round,      \* history: id -> claim calls since the last other write
  lastMinutes,\* history: the argument of the last resetStuck call (0: none)
  hooks,      \* webhooks: HookIds -> row or NoHook
  facade,     \* the webhook service of the process and what it has cached
  call,       \* the message being handled and its fan-out
  sent,       \* the last POST made: what went on the wire
  enqueued,   \* history: id -> what enqueue stored for the record
  calc,       \* the inputs and the result of a function applied on its own
  trail,      \* history: worker -> its process and the tick under way
  mq          \* the MessageQueue of the process and its message_logs table

vars == <<now, queue, faulty, pc, batch, cur, outcome, posts, claims, cycles,
          round, lastMinutes, hooks, facade, call, sent, enqueued, calc,
          trail, mq>>

\* what the worker loop never touches
others == <<hooks, facade, call, calc, mq>>

\* ------------------------------------------------- the store (database.lite.js)

\* the answer of a store call: the table after it, what it returns, and
\* what it throws ("none", "MissingWebhookQueueTableError" or "error")
Answer(q, ret, thrown) == [q |-> q, ret |-> ret, thrown |-> thrown]

\* (mutation) the missing table is not told from any other error
RaisedGeneric(err) == "error"

\* the error a failed request surfaces as: PGRST205 on the queue table is
\* the distinguished one
Raised(err) == IF err = "missing" THEN "MissingWebhookQueueTableError" ELSE "error"

\* the BEFORE UPDATE trigger update_webhook_queue_updated_at
Touch(row, t) == [row EXCEPT !.updated_at = t]

\* (mutation) an error is logged and answered with null, as the other
\* store calls do
enqueueOrNull(q, id, webhook, payload, maxRetries, t, err) ==
  IF err # "none"
  THEN Answer(q, Null, "none")
  ELSE LET row == [id |-> id, webhook_id |-> webhook.id,
                   webhook_url |-> webhook.url,
                   webhook_secret |-> webhook.secret, payload |-> payload,
                   status |-> "pending", attempt_count |-> 0,
                   max_retries |-> maxRetries, next_attempt_at |-> t,
                   updated_at |-> t, last_error |-> "null",
                   response_status |-> 0]
       IN Answer([q EXCEPT ![id] = row], row, "none")

\* (mutation) the secret of the webhook is not copied into the record
enqueueWithoutSecret(q, id, webhook, payload, maxRetries, t, err) ==
  IF err # "none"
  THEN Answer(q, Null, Raised(err))
  ELSE LET row == [id |-> id, webhook_id |-> webhook.id,
                   webhook_url |-> webhook.url,
                   webhook_secret |-> "null", payload |-> payload,
                   status |-> "pending", attempt_count |-> 0,
                   max_retries |-> maxRetries, next_attempt_at |-> t,
                   updated_at |-> t, last_error |-> "null",
                   response_status |-> 0]
       IN Answer([q EXCEPT ![id] = row], row, "none")

\* INSERT of one pending record; the id is generated by the table
enqueueWebhookDelivery(q, id, webhook, payload, maxRetries, t, err) ==
  IF err # "none"
  THEN Answer(q, Null, Raised(err))
  ELSE LET row == [id |-> id, webhook_id |-> webhook.id,
                   webhook_url |-> webhook.url,
                   webhook_secret |-> webhook.secret, payload |-> payload,
                   status |-> "pending", attempt_count |-> 0,
                   max_retries |-> maxRetries, next_attempt_at |-> t,
                   updated_at |-> t, last_error |-> "null",
                   response_status |-> 0]
       IN Answer([q EXCEPT ![id] = row], row, "none")

\* (mutation) the due records without the filter on next_attempt_at
IsDueAtAnyTime(row, t) == row # NoRow /\ row.status \in Claimable

\* status IN (pending, failed) AND next_attempt_at <= now
IsDue(row, t) == row # NoRow /\ row.status \in Claimable /\ row.next_attempt_at <= t

DueIds(q, t) == {i \in DOMAIN q : IsDue(q[i], t)}

Min(a, b) == IF a <= b THEN a ELSE b

\* ORDER BY next_attempt_at ASC LIMIT limit: every sequence of distinct due
\* rows, ascending, that no omitted due row precedes (ties in any order)
DueOrders(q, limit, t) ==
  LET due == DueIds(q, t)
      n == Min(limit, Cardinality(due))
  IN {s \in [1..n -> due] :
        /\ \A i, j \in 1..n : i < j =>
              /\ s[i] # s[j]
              /\ q[s[i]].next_attempt_at <= q[s[j]].next_attempt_at
        /\ \A i \in 1..n : \A d \in due \ {s[k] : k \in 1..n} :
              q[s[i]].next_attempt_at <= q[d].next_attempt_at}

\* the possible answers of getDueWebhookDeliveries: any error is logged and
\* answered with the empty list
getDueWebhookDeliveries(q, limit, t, err) ==
  IF err # "none"
  THEN {<<>>}
  ELSE {[i \in DOMAIN s |-> q[s[i]]] : s \in DueOrders(q, limit, t)}

\* (mutation) the claim without its filter on the status
markProcessingAnyStatus(q, job, t, err) ==
  IF err # "none" \/ q[job.id] = NoRow
  THEN Answer(q, Null, "none")
  ELSE LET row == Touch([q[job.id] EXCEPT
                           !.status = "processing",
                           !.attempt_count = job.attempt_count + 1,
                           !.last_error = "null"], t)
       IN Answer([q EXCEPT ![job.id] = row], row, "none")

\* UPDATE ... SET status = processing, attempt_count = job.attempt_count + 1
\* WHERE id = job.id AND status IN (pending, failed) RETURNING *
markWebhookDeliveryProcessing(q, job, t, err) ==
  IF err # "none"
  THEN Answer(q, Null, "none")
  ELSE IF q[job.id] # NoRow /\ q[job.id].status \in Claimable
       THEN LET row == Touch([q[job.id] EXCEPT
                                !.status = "processing",
                                !.attempt_count = job.attempt_count + 1,
                                !.last_error = "null"], t)
            IN Answer([q EXCEPT ![job.id] = row], row, "none")
       ELSE Answer(q, Null, "none")

\* (mutation) the payload is dropped once it has been delivered
completeAndPurge(q, jobId, responseStatus, t, err) ==
  IF err # "none" \/ q[jobId] = NoRow
  THEN Answer(q, err = "none", "none")
  ELSE Answer([q EXCEPT ![jobId] =
                 Touch([q[jobId] EXCEPT !.status = "success",
                                        !.response_status = responseStatus,
                                        !.last_error = "null",
                                        !.payload = 0], t)],
              TRUE, "none")

\* (mutation) the status code of the response is not stored
completeWithoutStatusCode(q, jobId, responseStatus, t, err) ==
  IF err # "none" \/ q[jobId] = NoRow
  THEN Answer(q, err = "none", "none")
  ELSE Answer([q EXCEPT ![jobId] =
                 Touch([q[jobId] EXCEPT !.status = "success",
                                        !.last_error = "null"], t)],
              TRUE, "none")

\* UPDATE ... SET status = success, response_status, last_error = null
\* WHERE id = jobId
completeWebhookDelivery(q, jobId, responseStatus, t, err) ==
  IF err # "none"
  THEN Answer(q, FALSE, "none")
  ELSE IF q[jobId] # NoRow
       THEN Answer([q EXCEPT ![jobId] =
                      Touch([q[jobId] EXCEPT !.status = "success",
                                             !.response_status = responseStatus,
                                             !.last_error = "null"], t)],
                   TRUE, "none")
       ELSE Answer(q, TRUE, "none")

\* UPDATE ... SET status = dead_letter | failed, last_error, next_attempt_at
\* WHERE id = job.id
failWebhookDelivery(q, job, errorMessage, nextAttemptAt, isDeadLetter, t, err) ==
  IF err # "none"
  THEN Answer(q, FALSE, "none")
  ELSE IF q[job.id] # NoRow
       THEN Answer([q EXCEPT ![job.id] =
                      Touch([q[job.id] EXCEPT
                               !.status = IF isDeadLetter THEN "dead_letter"
                                                          ELSE "failed",
                               !.last_error = errorMessage,
                               !.next_attempt_at = nextAttemptAt], t)],
                   TRUE, "none")
       ELSE Answer(q, TRUE, "none")

\* (mutation) the sweep without its filter on the age
IsStuckAnyAge(row, minutes, t) == row # NoRow /\ row.status = "processing"

\* the rows resetStuckWebhookDeliveries matches:
\* status = processing AND updated_at <= now - minutes * 60000
IsStuck(row, minutes, t) ==
  /\ row # NoRow
  /\ row.status = "processing"
  /\ row.updated_at <= t - minutes * SlotsPerMinute

\* UPDATE ... SET status = failed, next_attempt_at = now, last_error
\* WHERE status = processing AND updated_at <= cutoff; errors are rethrown
resetStuckWebhookDeliveries(q, minutes, t, err) ==
  IF err # "none"
  THEN Answer(q, Null, Raised(err))
  ELSE Answer([i \in DOMAIN q |->
                 IF IsStuck(q[i], minutes, t)
                 THEN Touch([q[i] EXCEPT !.status = "failed",
                                         !.next_attempt_at = t,
                                         !.last_error = "recovered"], t)
                 ELSE q[i]],
              Null, "none")

\* -------------------------------------------- the retry policy (section 4.3)

RECURSIVE Pow2(_)
Pow2(n) == IF n <= 0 THEN 1 ELSE 2 * Pow2(n - 1)

\* delay = base * 2^(attemptCount - 1), in slots of the base delay
BackoffDelay(attemptCount) == Pow2(attemptCount - 1)

\* decide(attemptCount, maxRetries, outcome) for a failed attempt
Decide(attemptCount, maxRetries, t) ==
  [deadLetter |-> attemptCount >= maxRetries,
   nextAttemptAt |-> t + BackoffDelay(attemptCount)]

\* 2xx is success, any other status or a network failure is a failure
IsSuccess(o) == o >= 200 /\ o <= 299

ErrorMessage(o) == IF o = 0 THEN "network" ELSE "status"

\* ------------------------------------------ the HTTP client (section 4.2)

\* the headers of a delivery: Content-Type, and X-Webhook-Secret when the
\* webhook has a secret
DeliveryHeaders(secret) ==
  {<<"Content-Type", "application/json">>}
    \cup (IF secret # "null" THEN {<<"X-Webhook-Secret", secret>>} ELSE {})

\* one POST as it goes on the wire: which path made it, for which record
\* (0: none) and webhook, and what it carries
Wire(path, id, hook, url, headers, payload) ==
  [path |-> path, id |-> id, hook |-> hook, url |-> url, headers |-> headers,
   payload |-> payload]

\* ------------------------------------------------------------ the actions

\* the faults a store request of this step can show
Faults == IF faulty THEN StoreErrors ELSE {"none"}

\* getDueWebhookDeliveries(limit = 10)
DefaultLimit == 10

NewRound(row) == [open |-> row.status \in Claimable, wins |-> 0, losses |-> 0]

\* the rounds after a write that is not a claim: a changed row starts afresh
Rounds(q2) ==
  [i \in DOMAIN q2 |-> IF q2[i] # queue[i] THEN NewRound(q2[i]) ELSE round[i]]

\* the webhook service the process uses: the required module, or the
\* inline fallback when it cannot be loaded; degraded once the service has
\* found the queue table missing.  History: the (event, webhook) pairs
\* posted directly, and those whose enqueue met the missing table
Service(svc) == [svc |-> svc, degraded |-> FALSE, fell |-> {},
                 unavailable |-> {}]

\* no message is being handled; payload is the last event handled.  Of the
\* call in progress: the active webhooks it was given, those still to do,
\* and per webhook the attempts, direct POSTs and records made; which
\* attempts failed, whether fetching the webhooks failed, and what the
\* call let out to the message handler
Idle(payload) ==
  [pc |-> "idle", payload |-> payload, list |-> <<>>, todo |-> <<>>,
   tried |-> [h \in HookIds |-> 0], posted |-> [h \in HookIds |-> 0],
   stored |-> [h \in HookIds |-> 0], failed |-> {}, threw |-> FALSE,
   raised |-> "none"]

\* of a worker that is down: no resetStuck call made, stop() not called, no
\* tick failed as a whole; of its tick: the ids it read, those it called
\* claim for, those it posted, and those whose processing met a fault
NoTrail == [resets |-> 0, stopped |-> FALSE, missed |-> FALSE, list |-> <<>>,
            called |-> {}, tried |-> {}, faults |-> {}]

\* the trail of a worker whose tick is over
Ended(tr) == [tr EXCEPT !.list = <<>>, !.called = {}, !.tried = {},
                        !.faults = {}]

\* new MessageQueue(): nothing queued, no flush under way; with it the
\* message_logs table, empty, the inserts awaited, and as history the
\* number of messages added and the last call made
NewMessageQueue ==
  [queue |-> <<>>, processing |-> FALSE, flying |-> <<>>, logs |-> <<>>,
   added |-> 0, last |-> [op |-> "none"]]

\* the workers down, the table empty, the clock at 0
Boot ==
  /\ now = 0
  /\ pc = [w \in Workers |-> "down"]
  /\ batch = [w \in Workers |-> <<>>]
  /\ cur = [w \in Workers |-> Null]
  /\ outcome = [w \in Workers |-> 0]
  /\ posts = [i \in Ids |-> 0]
  /\ claims = [i \in Ids |-> 0]
  /\ cycles = [i \in Ids |-> 0]
  /\ round = [i \in Ids |-> [open |-> FALSE, wins |-> 0, losses |-> 0]]
  /\ lastMinutes = 0
  /\ sent = NoPost
  /\ calc = [op |-> "none"]
  /\ trail = [w \in Workers |-> NoTrail]
  /\ mq = NewMessageQueue

\* one account with one active webhook; the store answers every request
Init ==
  /\ Boot
  /\ queue = [i \in Ids |-> NoRow]
  /\ enqueued = [i \in Ids |-> NoRow]
  /\ faulty = FALSE
  /\ hooks = [h \in HookIds |->
                IF h = 1 THEN [id |-> 1, url |-> "u1", secret |-> "s1",
                               headers |-> {}, is_active |-> TRUE]
                         ELSE NoHook]
  /\ facade = Service("service")
  /\ call = Idle(1)

\* time passes
Tick ==
  /\ now < MaxTime
  /\ now' = now + 1
  /\ UNCHANGED <<queue, faulty, pc, trail, batch, cur, outcome, posts, claims, cycles,
                 round, lastMinutes, sent, enqueued, others>>

\* the facade enqueues one delivery of the current event for an active
\* webhook (the table generates the next id)
EnqueueUpTo(limit) ==
  \E i \in Ids, h \in HookIds, m \in 1..limit, err \in Faults :
    /\ queue[i] = NoRow /\ enqueued[i] = NoRow
    /\ \A j \in Ids : j < i => queue[j] # NoRow
    /\ hooks[h] # NoHook /\ hooks[h].is_active
    /\ LET a == enqueueWebhookDelivery(queue, i, hooks[h], call.payload, m,
                                       now, err)
       IN /\ queue' = a.q
          /\ round' = Rounds(a.q)
          /\ enqueued' = IF a.thrown = "none"
                         THEN [enqueued EXCEPT ![i] = a.ret] ELSE enqueued
    /\ UNCHANGED <<now, faulty, pc, trail, batch, cur, outcome, posts, claims, cycles,
                   lastMinutes, sent, others>>

Enqueue == EnqueueUpTo(MaxRetriesBound)

\* worker start-up: resetStuck once, then the timer runs
Start(w) ==
  \E minutes \in 1..MaxMinutes, err \in Faults :
    /\ pc[w] = "down"
    /\ LET a == resetStuckWebhookDeliveries(queue, minutes, now, err)
       IN /\ queue' = a.q
          /\ round' = Rounds(a.q)
          /\ pc' = [pc EXCEPT ![w] = IF a.thrown = "none" THEN "idle" ELSE "down"]
          /\ trail' = IF a.thrown = "none"
                      THEN [trail EXCEPT ![w].resets = @ + 1]
                      ELSE trail
    /\ lastMinutes' = minutes
    /\ UNCHANGED <<now, faulty, batch, cur, outcome, posts, claims, cycles,
                   sent, enqueued, others>>

\* the process dies; whatever it had claimed stays as it is in the table
Crash(w) ==
  /\ pc[w] # "down"
  /\ pc' = [pc EXCEPT ![w] = "down"]
  /\ batch' = [batch EXCEPT ![w] = <<>>]
  /\ cur' = [cur EXCEPT ![w] = Null]
  /\ outcome' = [outcome EXCEPT ![w] = 0]
  /\ trail' = [trail EXCEPT ![w] = NoTrail]
  /\ UNCHANGED <<now, queue, faulty, posts, claims, cycles, round, lastMinutes,
                 sent, enqueued, others>>

\* what a tick keeps of a row it read: the fields it reads again later
Job(row) == [id |-> row.id, attempt_count |-> row.attempt_count,
             max_retries |-> row.max_retries, webhook_id |-> row.webhook_id,
             webhook_url |-> row.webhook_url,
             webhook_secret |-> row.webhook_secret, payload |-> row.payload]

\* (mutation) the tick is over with the first record it is done with
AfterAbort(b) == "idle"

\* where a tick goes once it is done with a record
After(b) == IF b = <<>> THEN "idle" ELSE "batch"

\* (mutation) every tick sweeps the stuck records before it reads
PollSweeping(w) ==
  \E err \in Faults :
    \E b \in getDueWebhookDeliveries(queue, DefaultLimit, now, err) :
      /\ pc[w] = "idle" /\ ~trail[w].stopped
      /\ queue' = resetStuckWebhookDeliveries(queue, 1, now, "none").q
      /\ batch' = [batch EXCEPT ![w] = [i \in DOMAIN b |-> Job(b[i])]]
      /\ pc' = [pc EXCEPT ![w] = IF b = <<>> THEN "idle" ELSE "batch"]
      /\ trail' = [trail EXCEPT ![w].missed = @ \/ err # "none",
                                ![w].list = [i \in DOMAIN b |-> b[i].id],
                                ![w].resets = @ + 1]
      /\ UNCHANGED <<now, faulty, cur, outcome, posts, claims, cycles, round,
                     lastMinutes, sent, enqueued, others>>

\* (mutation) a tick whose read of the due records fails ends the loop
PollOrDie(w) ==
  \E err \in Faults :
    \E b \in getDueWebhookDeliveries(queue, DefaultLimit, now, err) :
      /\ pc[w] = "idle" /\ ~trail[w].stopped
      /\ batch' = [batch EXCEPT ![w] = [i \in DOMAIN b |-> Job(b[i])]]
      /\ pc' = [pc EXCEPT ![w] = IF err # "none" THEN "down"
                                 ELSE IF b = <<>> THEN "idle" ELSE "batch"]
      /\ trail' = [trail EXCEPT ![w].missed = @ \/ err # "none",
                                ![w].list = [i \in DOMAIN b |-> b[i].id]]
      /\ UNCHANGED <<now, queue, faulty, cur, outcome, posts, claims, cycles,
                     round, lastMinutes, sent, enqueued, others>>

\* tick, step 1: read the due records, at most limit of them
PollUpTo(w, limit) ==
  \E err \in Faults :
    \E b \in getDueWebhookDeliveries(queue, limit, now, err) :
      /\ pc[w] = "idle" /\ ~trail[w].stopped
      /\ batch' = [batch EXCEPT ![w] = [i \in DOMAIN b |-> Job(b[i])]]
      /\ pc' = [pc EXCEPT ![w] = IF b = <<>> THEN "idle" ELSE "batch"]
      /\ trail' = [trail EXCEPT ![w].missed = @ \/ err # "none",
                                ![w].list = [i \in DOMAIN b |-> b[i].id]]
      /\ UNCHANGED <<now, queue, faulty, cur, outcome, posts, claims, cycles,
                     round, lastMinutes, sent, enqueued, others>>

\* the tick of the running service: the batch limit is the default of
\* getDueWebhookDeliveries
Poll(w) == PollUpTo(w, DefaultLimit)

\* the claims of one round that a store error is let lose (a cap on the
\* history of the round)
MaxLostClaims == 1

\* tick, step 2a: claim the next record of the batch; a lost claim is skipped
Claim(w) ==
  \E err \in Faults :
    /\ pc[w] = "batch"
    /\ err # "none" => round[Head(batch[w]).id].losses < MaxLostClaims
    /\ LET job == Head(batch[w])
           rest == Tail(batch[w])
           a == markWebhookDeliveryProcessing(queue, job, now, err)
           tr == [trail[w] EXCEPT
                    !.called = @ \cup {job.id},
                    !.faults = IF err # "none" THEN @ \cup {job.id} ELSE @]
       IN /\ queue' = a.q
          /\ batch' = [batch EXCEPT ![w] = rest]
          /\ trail' = [trail EXCEPT ![w] = IF a.ret = Null /\ rest = <<>>
                                           THEN Ended(tr) ELSE tr]
          /\ IF a.ret # Null
             THEN /\ cur' = [cur EXCEPT ![w] = Job(a.ret)]
                  /\ pc' = [pc EXCEPT ![w] = "attempt"]
                  /\ claims' = [claims EXCEPT ![job.id] = @ + 1]
                  /\ round' = [round EXCEPT ![job.id].wins = @ + 1]
             ELSE /\ cur' = cur
                  /\ pc' = [pc EXCEPT ![w] = After(rest)]
                  /\ claims' = claims
                  /\ round' = [round EXCEPT ![job.id].losses = @ + 1]
    /\ UNCHANGED <<now, faulty, outcome, posts, cycles, lastMinutes, sent,
                   enqueued, others>>

\* tick, step 2b: one POST to the webhook, answered with any outcome
Deliver(w) ==
  \E o \in Outcomes :
    /\ pc[w] = "attempt"
    /\ outcome' = [outcome EXCEPT ![w] = o]
    /\ posts' = [posts EXCEPT ![cur[w].id] = @ + 1]
    /\ pc' = [pc EXCEPT ![w] = "write"]
    /\ trail' = [trail EXCEPT
                   ![w].tried = @ \cup {cur[w].id},
                   ![w].faults = IF o = 0 THEN @ \cup {cur[w].id} ELSE @]
    /\ sent' = Wire("durable", cur[w].id, cur[w].webhook_id,
                    cur[w].webhook_url, DeliveryHeaders(cur[w].webhook_secret),
                    cur[w].payload)
    /\ UNCHANGED <<now, queue, faulty, batch, cur, claims, cycles, round,
                   lastMinutes, enqueued, others>>

\* tick, steps 2c and 2d: write the outcome back
Settle(w) ==
  \E err \in Faults :
    /\ pc[w] = "write"
    /\ LET job == cur[w]
           d == Decide(job.attempt_count, job.max_retries, now)
           a == IF IsSuccess(outcome[w])
                THEN completeWebhookDelivery(queue, job.id, outcome[w], now, err)
                ELSE failWebhookDelivery(queue, job, ErrorMessage(outcome[w]),
                                         d.nextAttemptAt, d.deadLetter, now, err)
       IN /\ queue' = a.q
          /\ round' = Rounds(a.q)
          /\ cycles' = IF IsSuccess(outcome[w]) THEN cycles
                       ELSE [cycles EXCEPT ![job.id] = @ + 1]
    /\ pc' = [pc EXCEPT ![w] = After(batch[w])]
    /\ trail' = LET tr == [trail[w] EXCEPT
                             !.faults = IF err # "none"
                                        THEN @ \cup {cur[w].id} ELSE @]
                IN [trail EXCEPT ![w] = IF batch[w] = <<>> THEN Ended(tr)
                                                           ELSE tr]
    /\ cur' = [cur EXCEPT ![w] = Null]
    /\ outcome' = [outcome EXCEPT ![w] = 0]
    /\ UNCHANGED <<now, faulty, batch, posts, claims, lastMinutes, sent,
                   enqueued, others>>

Next ==
  \/ Tick
  \/ Enqueue
  \/ \E w \in Workers : Start(w)
  \/ \E w \in Workers : Crash(w)
  \/ \E w \in Workers : Poll(w)
  \/ \E w \in Workers : Claim(w)
  \/ \E w \in Workers : Deliver(w)
  \/ \E w \in Workers : Settle(w)

Spec == Init /\ [][Next]_vars

\* ------------------------------------------- one worker, one tick at a time

\* the clock runs on to the instant the waiting record falls due
Leap ==
  \E i \in Ids :
    /\ queue[i] # NoRow /\ queue[i].status \in Claimable
    /\ queue[i].next_attempt_at > now
    /\ now' = queue[i].next_attempt_at
    /\ UNCHANGED <<queue, faulty, pc, trail, batch, cur, outcome, posts, claims,
                   cycles, round, lastMinutes, sent, enqueued, others>>

\* a record enqueued with any limit up to the default of the column
SoloEnqueue == EnqueueUpTo(DefaultMaxRetries)

\* a single worker that is never killed: its ticks follow one another
SoloNext ==
  \/ Leap
  \/ SoloEnqueue
  \/ Start(1)
  \/ Poll(1)
  \/ Claim(1)
  \/ Deliver(1)
  \/ Settle(1)

SpecSolo == Init /\ [][SoloNext]_vars

\* ------------------------------------------- the webhook configuration

\* db.updateWebhook(id, updates): UPDATE webhooks SET ... WHERE id = id
updateWebhook(hs, id, url, secret) ==
  [hs EXCEPT ![id].url = url, ![id].secret = secret]

\* webhook_id REFERENCES webhooks(id) ON DELETE CASCADE: the rows of the
\* queue that go with a deleted webhook
Cascade(q, id) ==
  [i \in DOMAIN q |->
     IF q[i] # NoRow /\ q[i].webhook_id = id THEN NoRow ELSE q[i]]

\* the url or the secret of a webhook is edited
EditWebhook ==
  \E h \in HookIds, url \in Urls, secret \in Secrets :
    /\ hooks[h] # NoHook
    /\ hooks' = updateWebhook(hooks, h, url, secret)
    /\ hooks' # hooks
    /\ UNCHANGED <<now, queue, faulty, pc, trail, mq, batch, cur, outcome, posts, claims,
                   cycles, round, lastMinutes, facade, call, sent, enqueued,
                   calc>>

\* db.deleteWebhook(id): the webhook goes, and its queue rows with it
DeleteWebhook ==
  \E h \in HookIds :
    /\ hooks[h] # NoHook
    /\ hooks' = [hooks EXCEPT ![h] = NoHook]
    /\ queue' = Cascade(queue, h)
    /\ round' = [i \in Ids |->
                   IF queue'[i] = NoRow
                   THEN [open |-> FALSE, wins |-> 0, losses |-> 0]
                   ELSE round[i]]
    /\ UNCHANGED <<now, faulty, pc, trail, mq, batch, cur, outcome, posts, claims,
                   cycles, lastMinutes, facade, call, sent, enqueued, calc>>

\* one webhook with any url and secret, one event
SnapInit ==
  /\ Boot
  /\ queue = [i \in Ids |-> NoRow]
  /\ enqueued = [i \in Ids |-> NoRow]
  /\ faulty = FALSE
  /\ \E url \in Urls, secret \in Secrets :
       hooks = [h \in HookIds |->
                  IF h = 1 THEN [id |-> 1, url |-> url, secret |-> secret,
                                 headers |-> {}, is_active |-> TRUE]
                           ELSE NoHook]
  /\ facade = Service("service")
  /\ \E p \in Payloads : call = Idle(p)

\* one worker, which can be killed and started again, while the webhook
\* is edited or deleted
SnapNext ==
  \/ Tick
  \/ Enqueue
  \/ EditWebhook
  \/ DeleteWebhook
  \/ Start(1)
  \/ Crash(1)
  \/ Poll(1)
  \/ Claim(1)
  \/ Deliver(1)
  \/ Settle(1)

SpecSnapshot == SnapInit /\ [][SnapNext]_vars

\* ------------------------------------------------------ the message path

\* db.getWebhooks: the webhooks of the account; an error is rethrown
getWebhooks(hs, err) ==
  IF err # "none"
  THEN Answer(hs, <<>>, "error")
  ELSE Answer(hs, SelectSeq([h \in 1..NumHooks |-> hs[h]],
                            LAMBDA w : w # NoHook), "none")

\* (webhooks || []).filter(w => w.is_active)
ActiveWebhooks(list) == SelectSeq(list, LAMBDA w : w.is_active)

\* (mutation) no try/catch: what is thrown goes on to the caller
Uncaught(thrown) == thrown

\* try { ... } catch (e) { logger.warn(...) }: what the block lets out
Caught(thrown) == "none"

\* the statuses axios resolves when no validateStatus is given
DefaultValidateStatus(status) == status >= 200 /\ status < 300

\* (mutation) no validateStatus option: only 2xx resolves
RefuseNon2xx(status) == status >= 200 /\ status < 300

\* validateStatus: () => true
validateStatus(status) == TRUE

\* axios.post: a network failure (outcome 0) and a status the validator
\* refuses (valid is its verdict on the status) reject the promise, any
\* other status resolves it
axiosPost(o, valid) ==
  IF o # 0 /\ valid
  THEN [status |-> o, thrown |-> "none"]
  ELSE [status |-> o, thrown |-> "error"]

\* the inline fallback posts with headers: webhook.headers || {}
InlineHeaders(webhook) == webhook.headers

\* the call after an attempt for webhook w: a POST or a record made, the
\* attempt failed or not, and, if something is let out, the loop left
Attempted(w, post, record, fails, out) ==
  [call EXCEPT !.todo = Tail(@),
               !.tried[w.id] = @ + 1,
               !.posted[w.id] = @ + post,
               !.stored[w.id] = @ + record,
               !.failed = IF fails THEN @ \cup {w.id} ELSE @,
               !.raised = out,
               !.pc = IF out = "none" THEN "fanout" ELSE "done"]

\* a message arrives: fetch the webhooks, keep the active ones and hand
\* them to queueDeliveries, all inside one try/catch
Receive ==
  \E err \in Faults :
    /\ call.pc = "idle"
    /\ call.payload + 1 \in Payloads
    /\ LET a == getWebhooks(hooks, err)
           active == ActiveWebhooks(a.ret)
           fresh == Idle(call.payload + 1)
       IN call' = IF a.thrown # "none"
                  THEN [fresh EXCEPT !.pc = "done", !.threw = TRUE,
                                     !.raised = Caught(a.thrown)]
                  ELSE IF active = <<>>
                       THEN [fresh EXCEPT !.pc = "done"]
                       ELSE [fresh EXCEPT !.pc = "fanout", !.list = active,
                                          !.todo = active]
    /\ UNCHANGED <<now, queue, faulty, pc, trail, mq, batch, cur, outcome, posts, claims,
                   cycles, round, lastMinutes, hooks, facade, sent, enqueued,
                   calc>>

\* the inline fallback, one turn of its loop: POST to the next webhook
\* inside a try/catch
InlinePost ==
  \E o \in Outcomes :
    /\ call.pc = "fanout" /\ call.todo # <<>>
    /\ facade.svc = "inline"
    /\ LET w == Head(call.todo)
           r == axiosPost(o, DefaultValidateStatus(o))
       IN /\ sent' = Wire("inline", 0, w.id, w.url, InlineHeaders(w),
                          call.payload)
          /\ call' = Attempted(w, 1, 0, r.thrown # "none", Caught(r.thrown))
          /\ facade' = [facade EXCEPT !.fell = @ \cup {<<call.payload, w.id>>}]
    /\ UNCHANGED <<now, queue, faulty, pc, trail, mq, batch, cur, outcome, posts, claims,
                   cycles, round, lastMinutes, hooks, enqueued, calc>>

\* the smallest id the table has not used
FreeId(q) == CHOOSE i \in DOMAIN q : q[i] = NoRow /\ \A j \in DOMAIN q :
                                                       j < i => q[j] # NoRow

\* (mutation) the missing table is not remembered
Forgotten(thrown) == FALSE

\* what the service remembers after an enqueue: that the table is missing
Cached(thrown) == thrown = "MissingWebhookQueueTableError"

\* the facade of the service, one turn of its loop: enqueue for the next
\* webhook; on "queue unavailable", now or cached, one direct POST instead;
\* any other error is logged
ServiceStep ==
  \E err \in Faults, o \in Outcomes :
    /\ call.pc = "fanout" /\ call.todo # <<>>
    /\ facade.svc = "service"
    /\ LET w == Head(call.todo)
           pair == <<call.payload, w.id>>
           a == IF facade.degraded
                THEN Answer(queue, Null, "MissingWebhookQueueTableError")
                ELSE enqueueWebhookDelivery(queue, FreeId(queue), w,
                                            call.payload, DefaultMaxRetries,
                                            now, err)
           hit == ~facade.degraded /\ err = "missing"
       IN /\ queue' = a.q
          /\ enqueued' = IF a.ret # Null
                         THEN [enqueued EXCEPT ![a.ret.id] = a.ret]
                         ELSE enqueued
          /\ calc' = IF facade.degraded THEN calc
                     ELSE [op |-> "enqueue", err |-> err, ret |-> a.ret,
                           thrown |-> a.thrown]
          /\ IF a.thrown = "MissingWebhookQueueTableError"
             THEN /\ sent' = Wire("fallback", 0, w.id, w.url,
                                  DeliveryHeaders(w.secret), call.payload)
                  /\ call' = Attempted(w, 1, 0, ~IsSuccess(o), "none")
                  /\ facade' = [facade EXCEPT
                                  !.degraded = Cached(a.thrown),
                                  !.fell = @ \cup {pair},
                                  !.unavailable =
                                     IF hit THEN @ \cup {pair} ELSE @]
             ELSE /\ sent' = sent
                  /\ call' = IF a.ret # Null
                             THEN Attempted(w, 0, 1, FALSE, "none")
                             ELSE Attempted(w, 0, 0, TRUE, "none")
                  /\ facade' = [facade EXCEPT
                                  !.unavailable =
                                     IF hit THEN @ \cup {pair} ELSE @]
    /\ UNCHANGED <<now, faulty, pc, trail, mq, batch, cur, outcome, posts, claims,
                   cycles, round, lastMinutes, hooks>>

\* queueDeliveries returns once the list is done
Return ==
  /\ call.pc = "fanout" /\ call.todo = <<>>
  /\ call' = [call EXCEPT !.pc = "done"]
  /\ UNCHANGED <<now, queue, faulty, pc, trail, mq, batch, cur, outcome, posts, claims,
                 cycles, round, lastMinutes, hooks, facade, sent, enqueued,
                 calc>>

\* the message handler goes on, unless the call let an error out
Continue ==
  /\ call.pc = "done" /\ call.raised = "none"
  /\ call' = Idle(call.payload)
  /\ UNCHANGED <<now, queue, faulty, pc, trail, mq, batch, cur, outcome, posts, claims,
                 cycles, round, lastMinutes, hooks, facade, sent, enqueued,
                 calc>>

\* the process is started again: what the service had cached is gone
Restart ==
  /\ call.pc = "idle"
  /\ facade.degraded
  /\ facade' = [facade EXCEPT !.degraded = FALSE]
  /\ UNCHANGED <<now, queue, faulty, pc, trail, mq, batch, cur, outcome, posts, claims,
                 cycles, round, lastMinutes, hooks, call, sent, enqueued, calc>>

\* the webhooks an account can have: each one absent, or present with any
\* secret, custom headers and activity
HookConfigs ==
  {hs \in [HookIds -> Hooks \cup {NoHook}] :
     \A h \in HookIds : hs[h] # NoHook => hs[h].id = h /\ hs[h].url = "u1"}

\* any webhooks, either service, a store whose requests can fail
FanInit ==
  /\ Boot
  /\ queue = [i \in RowIds |-> NoRow]
  /\ enqueued = [i \in RowIds |-> NoRow]
  /\ faulty = TRUE
  /\ hooks \in HookConfigs
  /\ facade \in {Service("service"), Service("inline")}
  /\ call = Idle(0)

FanNext ==
  \/ Receive
  \/ InlinePost
  \/ ServiceStep
  \/ Return
  \/ Continue
  \/ Restart

SpecFanout == FanInit /\ [][FanNext]_vars

\* the service loaded, any webhooks without custom headers (the records do
\* not keep them), a store whose requests can fail
DurableInit ==
  /\ FanInit
  /\ facade = Service("service")
  /\ \A h \in HookIds : hooks[h] # NoHook => hooks[h].headers = {}

\* messages arrive as time passes
DurableNext ==
  \/ Tick
  \/ Receive
  \/ ServiceStep
  \/ Return
  \/ Continue
  \/ Restart

SpecDurable == DurableInit /\ [][DurableNext]_vars

\* ------------------------------------------------- the due records alone

\* a table of three rows
DueRowIds == {1, 2, 3}

\* the limits a caller asks for
Limits == {1, 2, DefaultLimit}

\* a row in any status, due at any instant; only a pending row has never
\* been claimed
RowIn(id, status, nextAttemptAt) ==
  [id |-> id, webhook_id |-> 1, webhook_url |-> "u1",
   webhook_secret |-> "null", payload |-> 1, status |-> status,
   attempt_count |-> IF status = "pending" THEN 0 ELSE 1,
   max_retries |-> DefaultMaxRetries, next_attempt_at |-> nextAttemptAt,
   updated_at |-> 0, last_error |-> "null", response_status |-> 0]

Tables ==
  {q \in [DueRowIds -> {NoRow} \cup {RowIn(i, st, n) :
                                        i \in DueRowIds, st \in Statuses,
                                        n \in 0..MaxTime}] :
     \A i \in DueRowIds : q[i] # NoRow => q[i].id = i}

\* any table at any instant; no worker runs
DueInit ==
  /\ now \in 0..MaxTime
  /\ queue \in Tables
  /\ enqueued = queue
  /\ faulty = FALSE
  /\ pc = [w \in Workers |-> "down"]
  /\ batch = [w \in Workers |-> <<>>]
  /\ cur = [w \in Workers |-> Null]
  /\ outcome = [w \in Workers |-> 0]
  /\ posts = [i \in Ids |-> 0]
  /\ claims = [i \in Ids |-> 0]
  /\ cycles = [i \in Ids |-> 0]
  /\ round = [i \in Ids |-> [open |-> FALSE, wins |-> 0, losses |-> 0]]
  /\ lastMinutes = 0
  /\ hooks = [h \in HookIds |-> NoHook]
  /\ facade = Service("service")
  /\ call = Idle(0)
  /\ sent = NoPost
  /\ calc = [op |-> "none"]
  /\ trail = [w \in Workers |-> NoTrail]
  /\ mq = NewMessageQueue

\* getDueWebhookDeliveries(limit) is called
Query ==
  \E limit \in Limits, err \in Faults :
    \E b \in getDueWebhookDeliveries(queue, limit, now, err) :
      /\ calc' = [op |-> "due", limit |-> limit, rows |-> b]
      /\ UNCHANGED <<now, queue, faulty, pc, trail, mq, batch, cur, outcome, posts,
                     claims, cycles, round, lastMinutes, hooks, facade, call,
                     sent, enqueued>>

DueNext == Query

SpecDue == DueInit /\ [][DueNext]_vars

\* ---------------------------------------------------- the test endpoint

\* the answers a webhook can give to a POST: no response (0) or a status
TestOutcomes == {0, 199, 200, 204, 299, 300, 404, 500}

\* Content-Type, User-Agent, the custom headers of the webhook, and
\* X-Webhook-Secret if (webhook.secret)
TestHeaders(webhook) ==
  {<<"Content-Type", "application/json">>,
   <<"User-Agent", "WhatsApp-Gateway-Lite/1.0">>}
    \cup webhook.headers
    \cup (IF webhook.secret # "null"
          THEN {<<"X-Webhook-Secret", webhook.secret>>} ELSE {})

\* POST .../webhooks/:webhookId/test: one POST; success is
\* response.status >= 200 && response.status < 300, and a rejected POST is
\* caught and answered with success: false
testWebhook(o) ==
  LET r == axiosPost(o, validateStatus(o))
  IN IF r.thrown # "none"
     THEN [success |-> FALSE, statusCode |-> 0, threw |-> TRUE]
     ELSE [success |-> r.status >= 200 /\ r.status < 300,
           statusCode |-> r.status, threw |-> FALSE]

\* the test endpoint is called for an existing webhook
Test ==
  \E h \in HookIds, o \in TestOutcomes :
    /\ hooks[h] # NoHook
    /\ sent' = Wire("test", 0, h, hooks[h].url, TestHeaders(hooks[h]), 0)
    /\ calc' = [op |-> "test", o |-> o, answer |-> testWebhook(o)]
    /\ UNCHANGED <<now, queue, faulty, pc, trail, mq, batch, cur, outcome, posts, claims,
                   cycles, round, lastMinutes, hooks, facade, call, enqueued>>

\* any webhooks; nothing else runs
TestInit ==
  /\ Boot
  /\ queue = [i \in Ids |-> NoRow]
  /\ enqueued = [i \in Ids |-> NoRow]
  /\ faulty = FALSE
  /\ hooks \in HookConfigs
  /\ facade = Service("service")
  /\ call = Idle(0)

TestNext == Test

SpecTest == TestInit /\ [][TestNext]_vars

\* ------------------------------------------------------- the store alone

\* the statuses getWebhookQueueStats counts
StatStatuses == {"pending", "processing", "failed", "dead_letter"}

\* getWebhookQueueStats: one count request per status; the missing table is
\* rethrown, any other error is logged and counted as 0
getWebhookQueueStats(q, err) ==
  IF err = "missing"
  THEN Answer(q, Null, Raised(err))
  ELSE Answer(q, [s \in StatStatuses |->
                    IF err # "none" THEN 0
                    ELSE Cardinality({i \in DOMAIN q :
                                        q[i] # NoRow /\ q[i].status = s})],
              "none")

\* the tables of one row
StoreTables ==
  {q \in [Ids -> {NoRow} \cup {RowIn(i, st, n) :
                                  i \in Ids, st \in Statuses, n \in 0..MaxTime}] :
     \A i \in Ids : q[i] # NoRow => q[i].id = i}

\* the records a caller can hold: read from the table now or earlier
Snapshots == {Job(RowIn(i, st, n)) : i \in Ids, st \in Statuses, n \in 0..MaxTime}

\* one call of a store operation: what it was given, the fault its request
\* met, the table before it, and what it returned or threw
Called(op, args, err, a) ==
  [op |-> op, args |-> args, err |-> err, before |-> queue, ret |-> a.ret,
   thrown |-> a.thrown]

\* any table at any instant, a store whose requests can fail, no worker
StoreInit ==
  /\ now \in 0..MaxTime
  /\ queue \in StoreTables
  /\ enqueued = queue
  /\ faulty = TRUE
  /\ pc = [w \in Workers |-> "down"]
  /\ batch = [w \in Workers |-> <<>>]
  /\ cur = [w \in Workers |-> Null]
  /\ outcome = [w \in Workers |-> 0]
  /\ posts = [i \in Ids |-> 0]
  /\ claims = [i \in Ids |-> 0]
  /\ cycles = [i \in Ids |-> 0]
  /\ round = [i \in Ids |-> [open |-> FALSE, wins |-> 0, losses |-> 0]]
  /\ lastMinutes = 0
  /\ hooks = [h \in HookIds |->
                IF h = 1 THEN [id |-> 1, url |-> "u1", secret |-> "null",
                               headers |-> {}, is_active |-> TRUE]
                         ELSE NoHook]
  /\ facade = Service("service")
  /\ call = Idle(1)
  /\ sent = NoPost
  /\ calc = [op |-> "none"]
  /\ trail = [w \in Workers |-> NoTrail]
  /\ mq = NewMessageQueue

\* the frame of a store call made on its own
StoreFrame ==
  UNCHANGED <<now, faulty, pc, trail, mq, batch, cur, outcome, posts, claims, cycles,
              round, lastMinutes, hooks, facade, call, sent, enqueued>>

StoreEnqueue ==
  \E i \in Ids, err \in Faults :
    /\ calc.op = "none" /\ queue[i] = NoRow
    /\ LET a == enqueueWebhookDelivery(queue, i, hooks[1], call.payload,
                                       DefaultMaxRetries, now, err)
       IN queue' = a.q /\ calc' = Called("enqueue", <<i>>, err, a)
    /\ StoreFrame

StoreDue ==
  \E limit \in Limits, err \in Faults :
    \E b \in getDueWebhookDeliveries(queue, limit, now, err) :
      /\ calc.op = "none"
      /\ calc' = Called("dueRecords", <<limit>>, err, Answer(queue, b, "none"))
      /\ queue' = queue
      /\ StoreFrame

StoreClaim ==
  \E job \in Snapshots, err \in Faults :
    /\ calc.op = "none"
    /\ LET a == markWebhookDeliveryProcessing(queue, job, now, err)
       IN queue' = a.q /\ calc' = Called("claim", <<job>>, err, a)
    /\ StoreFrame

StoreComplete ==
  \E i \in Ids, o \in {200, 204}, err \in Faults :
    /\ calc.op = "none"
    /\ LET a == completeWebhookDelivery(queue, i, o, now, err)
       IN queue' = a.q /\ calc' = Called("complete", <<i, o>>, err, a)
    /\ StoreFrame

StoreFail ==
  \E job \in Snapshots, o \in Outcomes \ {200}, next \in {now + 1, now + 2},
     dead \in BOOLEAN, err \in Faults :
    /\ calc.op = "none"
    /\ LET a == failWebhookDelivery(queue, job, ErrorMessage(o), next, dead,
                                    now, err)
       IN /\ queue' = a.q
          /\ calc' = Called("fail", <<job, ErrorMessage(o), next, dead>>, err, a)
    /\ StoreFrame

StoreResetStuck ==
  \E minutes \in 1..MaxMinutes, err \in Faults :
    /\ calc.op = "none"
    /\ LET a == resetStuckWebhookDeliveries(queue, minutes, now, err)
       IN queue' = a.q /\ calc' = Called("resetStuck", <<minutes>>, err, a)
    /\ StoreFrame

StoreStats ==
  \E err \in Faults :
    /\ calc.op = "none"
    /\ LET a == getWebhookQueueStats(queue, err)
       IN queue' = a.q /\ calc' = Called("queueStats", <<>>, err, a)
    /\ StoreFrame

StoreNext ==
  \/ StoreEnqueue
  \/ StoreDue
  \/ StoreClaim
  \/ StoreComplete
  \/ StoreFail
  \/ StoreResetStuck
  \/ StoreStats

SpecStore == StoreInit /\ [][StoreNext]_vars

\* ------------------------------------- the lite store (database.lite.js 1-384)

\* max_retries: delivery.maxRetries || 3
LiteDefaultMaxRetries == 3

\* getDueWebhookDeliveries(limit = 5)
LiteDefaultLimit == 5

\* INSERT of one pending record with attempts 0; 0 stands for no maxRetries
\* given.  Nothing is returned; any error is thrown
liteEnqueueWebhookDelivery(q, id, webhook, payload, maxRetries, t, err) ==
  IF err # "none"
  THEN Answer(q, Null, Raised(err))
  ELSE Answer([q EXCEPT ![id] =
                 [id |-> id, webhook_id |-> webhook.id,
                  webhook_url |-> webhook.url,
                  webhook_secret |-> webhook.secret, payload |-> payload,
                  status |-> "pending", attempts |-> 0,
                  max_retries |-> IF maxRetries = 0 THEN LiteDefaultMaxRetries
                                                    ELSE maxRetries,
                  created_at |-> t, next_retry_at |-> t, updated_at |-> t,
                  last_error |-> "null", response_status |-> 0]],
              Null, "none")

\* status = pending AND next_retry_at <= now
liteIsDue(row, t) == row # NoRow /\ row.status = "pending" /\ row.next_retry_at <= t

\* ORDER BY created_at ASC LIMIT limit; any error is thrown
liteGetDueWebhookDeliveries(q, limit, t, err) ==
  IF err # "none"
  THEN {Answer(q, <<>>, Raised(err))}
  ELSE LET due == {i \in DOMAIN q : liteIsDue(q[i], t)}
           n == Min(limit, Cardinality(due))
       IN {Answer(q, [k \in 1..n |-> q[s[k]]], "none") :
             s \in {s \in [1..n -> due] :
                      \A j, k \in 1..n :
                        j < k => /\ s[j] # s[k]
                                 /\ q[s[j]].created_at <= q[s[k]].created_at}}

\* UPDATE ... SET status = processing WHERE id = job.id AND status = pending;
\* only the missing table is thrown
liteMarkWebhookDeliveryProcessing(q, job, t, err) ==
  IF err # "none"
  THEN Answer(q, Null, IF err = "missing" THEN Raised(err) ELSE "none")
  ELSE IF q[job.id] # NoRow /\ q[job.id].status = "pending"
       THEN LET row == [q[job.id] EXCEPT !.status = "processing",
                                         !.updated_at = t]
            IN Answer([q EXCEPT ![job.id] = row], row, "none")
       ELSE Answer(q, Null, "none")

\* UPDATE ... SET status = 'completed', response_status WHERE id = id; the
\* answer of the request is not looked at.  A table created with the CHECK
\* on status (checked) refuses the update
liteCompleteWebhookDelivery(q, id, status, checked, err) ==
  IF err # "none" \/ q[id] = NoRow \/ (checked /\ "completed" \notin Statuses)
  THEN Answer(q, Null, "none")
  ELSE Answer([q EXCEPT ![id] = [q[id] EXCEPT !.status = "completed",
                                             !.response_status = status]],
              Null, "none")

\* failWebhookDelivery, its first request: SELECT attempts, max_retries
\* WHERE id = id; job.data is null when the request fails or finds no row
liteFailSelect(q, id, err) ==
  IF err # "none" \/ q[id] = NoRow
  THEN [id |-> id, data |-> Null]
  ELSE [id |-> id, data |-> [attempts |-> q[id].attempts,
                             max_retries |-> q[id].max_retries]]

\* failWebhookDelivery, its second request, made with what the first one
\* read: attempts = (job.data?.attempts || 0) + 1, maxRetries =
\* job.data?.max_retries || 3; UPDATE ... SET status = failed when attempts
\* >= maxRetries, and SET status = pending, next_retry_at otherwise, WHERE
\* id = id; no answer is looked at
liteFailUpdate(q, job, errorMsg, nextRetry, err) ==
  LET attempts == (IF job.data = Null THEN 0 ELSE job.data.attempts) + 1
      maxRetries == IF job.data = Null \/ job.data.max_retries = 0
                    THEN LiteDefaultMaxRetries ELSE job.data.max_retries
  IN IF err # "none" \/ q[job.id] = NoRow
     THEN Answer(q, Null, "none")
     ELSE IF attempts >= maxRetries
          THEN Answer([q EXCEPT ![job.id] =
                         [q[job.id] EXCEPT !.status = "failed",
                                           !.last_error = errorMsg,
                                           !.attempts = attempts]],
                      Null, "none")
          ELSE Answer([q EXCEPT ![job.id] =
                         [q[job.id] EXCEPT !.status = "pending",
                                           !.last_error = errorMsg,
                                           !.attempts = attempts,
                                           !.next_retry_at = nextRetry]],
                      Null, "none")

\* UPDATE ... SET status = pending, updated_at WHERE status = processing
liteResetStuckWebhookDeliveries(q, t, err) ==
  IF err # "none"
  THEN Answer(q, Null, "none")
  ELSE Answer([i \in DOMAIN q |->
                 IF q[i] # NoRow /\ q[i].status = "processing"
                 THEN [q[i] EXCEPT !.status = "pending", !.updated_at = t]
                 ELSE q[i]],
              Null, "none")

\* the calls made on the lite store change the table and nothing else but
\* the histories
LiteFrame ==
  UNCHANGED <<now, faulty, trail, mq, batch, outcome, posts, round, lastMinutes,
              hooks, facade, call, sent>>

\* a delivery is enqueued, with or without maxRetries
LiteEnqueue ==
  \E i \in Ids, m \in 0..MaxRetriesBound, err \in Faults :
    /\ queue[i] = NoRow /\ enqueued[i] = NoRow
    /\ LET a == liteEnqueueWebhookDelivery(queue, i, hooks[1], call.payload, m,
                                           now, err)
       IN /\ queue' = a.q
          /\ enqueued' = [enqueued EXCEPT ![i] = a.q[i]]
    /\ UNCHANGED <<claims, cycles, pc, cur, calc>>
    /\ LiteFrame

\* the due records are read
LiteDue ==
  \E limit \in {1, LiteDefaultLimit}, err \in Faults :
    \E a \in liteGetDueWebhookDeliveries(queue, limit, now, err) :
      /\ calc' = [op |-> "dueRecords", args |-> <<limit>>, err |-> err,
                   ret |-> [k \in DOMAIN a.ret |-> a.ret[k].id],
                   thrown |-> a.thrown]
      /\ UNCHANGED <<queue, enqueued, claims, cycles, pc, cur>>
      /\ LiteFrame

\* a record read as due, now or earlier, is claimed
LiteClaim ==
  \E i \in Ids, err \in Faults :
    /\ queue[i] # NoRow /\ claims[i] < MaxRetriesBound
    /\ LET a == liteMarkWebhookDeliveryProcessing(queue, [id |-> i], now, err)
       IN /\ queue' = a.q
          /\ claims' = IF a.ret # Null THEN [claims EXCEPT ![i] = @ + 1]
                       ELSE claims
    /\ UNCHANGED <<enqueued, cycles, pc, cur, calc>>
    /\ LiteFrame

\* the claimant of a record writes back a 2xx answer
LiteComplete ==
  \E i \in Ids, checked \in BOOLEAN, err \in Faults :
    /\ queue[i] # NoRow /\ cycles[i] < claims[i]
    /\ queue' = liteCompleteWebhookDelivery(queue, i, 200, checked, err).q
    /\ cycles' = [cycles EXCEPT ![i] = @ + 1]
    /\ UNCHANGED <<enqueued, claims, pc, cur, calc>>
    /\ LiteFrame

\* the claimant of a record writes back a failed attempt: worker w calls
\* failWebhookDelivery, which reads the record and awaits
LiteFailSelect(w) ==
  \E i \in Ids, o \in {500}, err \in Faults :
    /\ pc[w] = "down"
    /\ queue[i] # NoRow /\ cycles[i] < claims[i]
    /\ pc' = [pc EXCEPT ![w] = "write"]
    /\ cur' = [cur EXCEPT ![w] = [id |-> i,
                                   data |-> liteFailSelect(queue, i, err).data,
                                   errorMsg |-> ErrorMessage(o),
                                   nextRetry |-> now + 1]]
    /\ cycles' = [cycles EXCEPT ![i] = @ + 1]
    /\ UNCHANGED <<queue, enqueued, claims, calc>>
    /\ LiteFrame

\* the failWebhookDelivery of worker w goes on with its update
LiteFailUpdate(w) ==
  \E err \in Faults :
    /\ pc[w] = "write"
    /\ queue' = liteFailUpdate(queue, cur[w], cur[w].errorMsg,
                               cur[w].nextRetry, err).q
    /\ pc' = [pc EXCEPT ![w] = "down"]
    /\ cur' = [cur EXCEPT ![w] = Null]
    /\ UNCHANGED <<enqueued, claims, cycles, calc>>
    /\ LiteFrame

\* a process starts and sweeps
LiteResetStuck ==
  \E err \in Faults :
    /\ queue' = liteResetStuckWebhookDeliveries(queue, now, err).q
    /\ UNCHANGED <<enqueued, claims, cycles, pc, cur, calc>>
    /\ LiteFrame

\* time passes
LiteTick ==
  /\ now < MaxTime
  /\ now' = now + 1
  /\ UNCHANGED <<queue, faulty, pc, trail, batch, cur, outcome, posts, claims, cycles,
                 round, lastMinutes, sent, enqueued, others>>

\* the table empty, one webhook, a store whose requests can fail
LiteInit ==
  /\ Boot
  /\ queue = [i \in Ids |-> NoRow]
  /\ enqueued = [i \in Ids |-> NoRow]
  /\ faulty = TRUE
  /\ hooks = [h \in HookIds |->
                IF h = 1 THEN [id |-> 1, url |-> "u1", secret |-> "null",
                               headers |-> {}, is_active |-> TRUE]
                         ELSE NoHook]
  /\ facade = Service("service")
  /\ call = Idle(1)

LiteNext ==
  \/ LiteTick
  \/ LiteEnqueue
  \/ LiteDue
  \/ LiteClaim
  \/ LiteComplete
  \/ \E w \in Workers : LiteFailSelect(w)
  \/ \E w \in Workers : LiteFailUpdate(w)
  \/ LiteResetStuck

SpecLite == LiteInit /\ [][LiteNext]_vars

\* --------------------------------------- one worker from start-up to stop

\* a table of two rows
LoopIds == {1, 2}

\* stop(): the timer is cancelled; what is under way goes on
Stop(w) ==
  /\ pc[w] # "down" /\ ~trail[w].stopped
  /\ trail' = [trail EXCEPT ![w].stopped = TRUE]
  /\ UNCHANGED <<now, queue, faulty, pc, batch, cur, outcome, posts, claims,
                 cycles, round, lastMinutes, sent, enqueued, others>>

\* the worker down, two records waiting, a store whose requests can fail
LoopInit ==
  /\ now = 0
  /\ queue = [i \in LoopIds |-> RowIn(i, "pending", 0)]
  /\ enqueued = queue
  /\ faulty = TRUE
  /\ pc = [w \in Workers |-> "down"]
  /\ batch = [w \in Workers |-> <<>>]
  /\ cur = [w \in Workers |-> Null]
  /\ outcome = [w \in Workers |-> 0]
  /\ posts = [i \in LoopIds |-> 0]
  /\ claims = [i \in LoopIds |-> 0]
  /\ cycles = [i \in LoopIds |-> 0]
  /\ round = [i \in LoopIds |->
                IF queue[i] = NoRow
                THEN [open |-> FALSE, wins |-> 0, losses |-> 0]
                ELSE NewRound(queue[i])]
  /\ lastMinutes = 0
  /\ hooks = [h \in HookIds |->
                IF h = 1 THEN [id |-> 1, url |-> "u1", secret |-> "null",
                               headers |-> {}, is_active |-> TRUE]
                         ELSE NoHook]
  /\ facade = Service("service")
  /\ call = Idle(1)
  /\ sent = NoPost
  /\ calc = [op |-> "none"]
  /\ trail = [w \in Workers |-> NoTrail]
  /\ mq = NewMessageQueue

\* one worker process: started, ticking, stopped, ended, started again
LoopNext ==
  \/ Tick
  \/ Start(1)
  \/ Stop(1)
  \/ Crash(1)
  \/ Poll(1)
  \/ Claim(1)
  \/ Deliver(1)
  \/ Settle(1)

SpecLoop == LoopInit /\ [][LoopNext]_vars

\* ------------------------------------- the timer firing over a slow tick

\* the batch limit the service is run with here
BatchLimit == 1

\* the worker threads are the runs of the timer callback of one started
\* service: two records wait, the sweep of the start-up found nothing, and
\* the store answers every request
OverlapInit ==
  /\ now = 0
  /\ queue = [i \in LoopIds |-> RowIn(i, "pending", 0)]
  /\ enqueued = queue
  /\ faulty = FALSE
  /\ pc = [w \in Workers |-> "idle"]
  /\ batch = [w \in Workers |-> <<>>]
  /\ cur = [w \in Workers |-> Null]
  /\ outcome = [w \in Workers |-> 0]
  /\ posts = [i \in LoopIds |-> 0]
  /\ claims = [i \in LoopIds |-> 0]
  /\ cycles = [i \in LoopIds |-> 0]
  /\ round = [i \in LoopIds |-> NewRound(queue[i])]
  /\ lastMinutes = 1
  /\ hooks = [h \in HookIds |->
                IF h = 1 THEN [id |-> 1, url |-> "u1", secret |-> "null",
                               headers |-> {}, is_active |-> TRUE]
                         ELSE NoHook]
  /\ facade = Service("service")
  /\ call = Idle(1)
  /\ sent = NoPost
  /\ calc = [op |-> "none"]
  /\ trail = [w \in Workers |-> [NoTrail EXCEPT !.resets = 1]]
  /\ mq = NewMessageQueue

\* the timer fires whether or not the run before it has returned
OverlapNext ==
  \/ Tick
  \/ \E w \in Workers : PollUpTo(w, BatchLimit)
  \/ \E w \in Workers : Claim(w)
  \/ \E w \in Workers : Deliver(w)
  \/ \E w \in Workers : Settle(w)

SpecOverlap == OverlapInit /\ [][OverlapNext]_vars

\* ------------------------------------ a running worker, scheduled fairly

\* the store requests that failed were transient: from now on every request
\* is answered
Recover ==
  /\ faulty
  /\ faulty' = FALSE
  /\ UNCHANGED <<now, queue, pc, trail, batch, cur, outcome, posts, claims,
                 cycles, round, lastMinutes, sent, enqueued, others>>

\* the worker down, the table empty, a store whose requests can fail
LiveInit ==
  /\ Boot
  /\ queue = [i \in Ids |-> NoRow]
  /\ enqueued = [i \in Ids |-> NoRow]
  /\ faulty = TRUE
  /\ hooks = [h \in HookIds |->
                IF h = 1 THEN [id |-> 1, url |-> "u1", secret |-> "s1",
                               headers |-> {}, is_active |-> TRUE]
                         ELSE NoHook]
  /\ facade = Service("service")
  /\ call = Idle(1)

\* a single worker that is started and never killed or stopped
LiveNext ==
  \/ Leap
  \/ Enqueue
  \/ Recover
  \/ Start(1)
  \/ Poll(1)
  \/ Claim(1)
  \/ Deliver(1)
  \/ Settle(1)

\* the timer keeps firing, every awaited call returns, time goes on, and the
\* store recovers for good
LiveFair ==
  /\ WF_vars(Leap) /\ WF_vars(Recover) /\ WF_vars(Start(1))
  /\ WF_vars(Poll(1)) /\ WF_vars(Claim(1)) /\ WF_vars(Deliver(1))
  /\ WF_vars(Settle(1))

SpecLive == LiveInit /\ [][LiveNext]_vars /\ LiveFair

\* ------------------------------ the message log (MessageQueue, 491-567)

\* messages logged in one run
MaxMessages == 5

\* this.batchSize
BatchSize == 2

\* the ways the awaited insert ends: no error, an error returned, an
\* exception
InsertResults == {"ok", "error", "threw"}

\* the frame of a MessageQueue call
QueueFrame ==
  UNCHANGED <<now, queue, faulty, pc, batch, cur, outcome, posts, claims,
              cycles, round, lastMinutes, hooks, facade, call, sent,
              enqueued, calc, trail>>

\* (mutation) flush without the test of the processing flag
flushUnguarded(m) ==
  IF m.queue = <<>>
  THEN m
  ELSE LET n == Min(BatchSize, Len(m.queue))
       IN [m EXCEPT !.processing = TRUE,
                    !.flying = Append(@, SubSeq(m.queue, 1, n)),
                    !.queue = SubSeq(m.queue, n + 1, Len(m.queue))]

\* flush() up to its await: nothing to do when a flush is under way or the
\* queue is empty; otherwise the flag is set, the first batchSize messages
\* are spliced off and their insert is sent
flush(m) ==
  IF m.processing \/ m.queue = <<>>
  THEN m
  ELSE LET n == Min(BatchSize, Len(m.queue))
       IN [m EXCEPT !.processing = TRUE,
                    !.flying = Append(@, SubSeq(m.queue, 1, n)),
                    !.queue = SubSeq(m.queue, n + 1, Len(m.queue))]

\* add(message): push, then flush when the queue has reached batchSize
add(m, message) ==
  LET pushed == [m EXCEPT !.queue = Append(@, message)]
  IN IF Len(pushed.queue) >= BatchSize THEN flush(pushed) ELSE pushed

\* the sequence s without its k-th element
Without(s, k) == SubSeq(s, 1, k - 1) \o SubSeq(s, k + 1, Len(s))

\* (mutation) a batch whose insert failed goes to the back of the queue
resumeAtTheBack(m, k, result) ==
  LET b == m.flying[k]
  IN [m EXCEPT !.flying = Without(@, k),
               !.logs = IF result = "ok" THEN @ \o b ELSE @,
               !.queue = IF result = "ok" THEN @ ELSE @ \o b,
               !.processing = FALSE]

\* flush() after its await, for the k-th insert awaited: the rows are in
\* message_logs, or, the insert having returned an error or thrown, the
\* batch is unshifted onto the queue; finally the flag is reset
resume(m, k, result) ==
  LET b == m.flying[k]
  IN [m EXCEPT !.flying = Without(@, k),
               !.logs = IF result = "ok" THEN @ \o b ELSE @,
               !.queue = IF result = "ok" THEN @ ELSE b \o @,
               !.processing = FALSE]

\* a message is logged: messageQueue.add
Add ==
  /\ mq.added < MaxMessages
  /\ mq' = [add(mq, mq.added + 1) EXCEPT
              !.added = @ + 1,
              !.last = [op |-> "add", busy |-> mq.processing]]
  /\ QueueFrame

\* the interval timer, or flushMessageQueue, calls flush
Flush ==
  /\ mq' = [flush(mq) EXCEPT !.last = [op |-> "flush", busy |-> mq.processing]]
  /\ QueueFrame

\* an awaited insert ends and its flush goes on to its end
Inserted ==
  \E k \in DOMAIN mq.flying, result \in InsertResults :
    /\ mq' = [resume(mq, k, result) EXCEPT
                !.last = [op |-> "insert", result |-> result,
                          batch |-> mq.flying[k]]]
    /\ QueueFrame

\* the process with its message queue just constructed
QueueInit == Init

QueueNext ==
  \/ Add
  \/ Flush
  \/ Inserted

SpecQueue == QueueInit /\ [][QueueNext]_vars

\* --------------------------------------- withRetry (database.lite.js 575-606)

\* the largest maxRetries a caller passes (the default is 3)
MaxAttempts == 3

\* what fn can throw: a code and the words its message contains
Errors ==
  {[code |-> "PGRST500", message |-> {}],
   [code |-> "PGRST520", message |-> {}],
   [code |-> "none", message |-> {"502"}],
   [code |-> "none", message |-> {"fetch failed"}],
   [code |-> "none", message |-> {"ETIMEDOUT", "network"}],
   [code |-> "PGRST116", message |-> {"no rows"}],
   [code |-> "23505", message |-> {"duplicate key"}]}

\* lastError before any call: undefined
Undefined == [code |-> "undefined", message |-> {}]

\* (mutation) every error is tried again
isRetryableAlways(error) == TRUE

\* const isRetryable = ...: the code is PGRST500 or PGRST520, or the message
\* includes one of the listed words
isRetryable(error) ==
  \/ error.code \in {"PGRST500", "PGRST520"}
  \/ error.message \cap {"520", "502", "503", "504", "fetch failed",
                         "network", "ECONNRESET", "ETIMEDOUT"} # {}

\* const delay = 1000 * Math.pow(2, attempt - 1), in milliseconds
Delay(attempt) == 1000 * Pow2(attempt - 1)

\* the loop test for (...; attempt <= maxRetries; ...): into the body, or
\* past the loop to throw lastError
Loop(attempt, maxRetries) == IF attempt <= maxRetries THEN "try" ELSE "thrown"

\* withRetry(fn, operationName, maxRetries) is called
withRetry(maxRetries) ==
  [op |-> "withRetry", maxRetries |-> maxRetries, attempt |-> 1,
   pc |-> Loop(1, maxRetries), calls |-> 0, waits |-> <<>>,
   lastError |-> Undefined, failed |-> <<>>]

\* the frame of a step of withRetry
RetryFrame ==
  UNCHANGED <<now, queue, faulty, pc, batch, cur, outcome, posts, claims,
              cycles, round, lastMinutes, hooks, facade, call, sent,
              enqueued, trail, mq>>

\* return await fn(): the call succeeds
TryReturns ==
  /\ calc.op = "withRetry" /\ calc.pc = "try"
  /\ calc' = [calc EXCEPT !.calls = @ + 1, !.pc = "returned"]
  /\ RetryFrame

\* fn throws: catch, classify, rethrow or wait
TryThrows ==
  \E error \in Errors :
    /\ calc.op = "withRetry" /\ calc.pc = "try"
    /\ calc' = IF ~isRetryable(error) \/ calc.attempt = calc.maxRetries
               THEN [calc EXCEPT !.calls = @ + 1, !.lastError = error,
                                 !.failed = Append(@, error),
                                 !.pc = "thrown"]
               ELSE [calc EXCEPT !.calls = @ + 1, !.lastError = error,
                                 !.failed = Append(@, error),
                                 !.waits = Append(@, Delay(calc.attempt)),
                                 !.pc = "wait"]
    /\ RetryFrame

\* the timer of the wait fires: attempt++ and the loop test
Wake ==
  /\ calc.op = "withRetry" /\ calc.pc = "wait"
  /\ calc' = [calc EXCEPT !.attempt = @ + 1,
                          !.pc = Loop(calc.attempt + 1, calc.maxRetries)]
  /\ RetryFrame

\* a call of withRetry with any maxRetries
RetryInit ==
  /\ now = 0
  /\ queue = [i \in Ids |-> NoRow]
  /\ enqueued = [i \in Ids |-> NoRow]
  /\ faulty = FALSE
  /\ pc = [w \in Workers |-> "down"]
  /\ batch = [w \in Workers |-> <<>>]
  /\ cur = [w \in Workers |-> Null]
  /\ outcome = [w \in Workers |-> 0]
  /\ posts = [i \in Ids |-> 0]
  /\ claims = [i \in Ids |-> 0]
  /\ cycles = [i \in Ids |-> 0]
  /\ round = [i \in Ids |-> [open |-> FALSE, wins |-> 0, losses |-> 0]]
  /\ lastMinutes = 0
  /\ hooks = [h \in HookIds |-> NoHook]
  /\ facade = Service("service")
  /\ call = Idle(1)
  /\ sent = NoPost
  /\ trail = [w \in Workers |-> NoTrail]
  /\ mq = NewMessageQueue
  /\ \E maxRetries \in 0..MaxAttempts : calc = withRetry(maxRetries)

RetryNext ==
  \/ TryReturns
  \/ TryThrows
  \/ Wake

\* fn settles and the timer fires
RetryFair == WF_vars(RetryNext)

SpecRetry == RetryInit /\ [][RetryNext]_vars /\ RetryFair

\* ----------------------------------------------------------- the claims

\* worker w is between a claim of record i that returned it and the
\* complete / fail write that ends the claim
Holds(w, i) == pc[w] \in {"attempt", "write"} /\ cur[w].id = i

Holders(i) == {w \in Workers : Holds(w, i)}

\* C1: of the claim calls racing on a record that was pending or failed
\* (the calls made on it with no other write to it in between), exactly one
\* gets the record back and every other one gets null.
C1_ExactlyOneClaimWins ==
  \A i \in Ids :
    (round[i].open /\ round[i].wins + round[i].losses >= 1) => round[i].wins = 1

\* two calls raced on a claimable record: one won, one lost
C1_Witness ==
  \E i \in Ids : round[i].open /\ round[i].wins = 1 /\ round[i].losses >= 1

\* C2: a record is never held by two claimants at once: no two workers are
\* at the same time between a claim that returned the record and the write
\* that ends that claim.
C2_AtMostOneHolder == \A i \in Ids : Cardinality(Holders(i)) <= 1

\* C3: a record with max_retries = N whose every attempt failed is, after N
\* claim-attempt-fail cycles, dead_letter with attempt_count = N, and from
\* then on it is neither claimed nor attempted again.
C3_DeadAfterNCycles ==
  \A i \in Ids :
    (queue[i] # NoRow /\ cycles[i] = queue[i].max_retries /\ posts[i] = cycles[i])
      => (queue[i].status = "dead_letter"
          /\ queue[i].attempt_count = queue[i].max_retries)

C3_NeverAgain ==
  \A i \in Ids :
    (queue[i] # NoRow /\ cycles[i] >= queue[i].max_retries)
      => (claims'[i] = claims[i] /\ posts'[i] = posts[i])

C3_RetryCeiling == [](C3_DeadAfterNCycles) /\ [][C3_NeverAgain]_vars

\* C4: the POSTs made for a record over its whole life never outnumber its
\* max_retries, and after that many failed attempts it is dead_letter.
C4_PostsWithinMaxRetries ==
  \A i \in Ids :
    queue[i] # NoRow =>
      /\ posts[i] <= queue[i].max_retries
      /\ (cycles[i] >= queue[i].max_retries => queue[i].status = "dead_letter")

\* the step in which worker w writes back the outcome of a failed attempt
\* on record i
FailedWrite(w, i) ==
  /\ pc[w] = "write" /\ pc'[w] \in {"idle", "batch"}
  /\ cur[w].id = i
  /\ ~IsSuccess(outcome[w])

\* C5: a record becomes dead_letter only in a step that writes back a failed
\* attempt while its attempt_count is at least its max_retries, and never
\* in a step that finds it in success.
C5_DeadLetterStep ==
  \A i \in Ids :
    (queue[i] # NoRow /\ queue[i].status # "dead_letter"
       /\ queue'[i].status = "dead_letter")
      => /\ queue[i].status # "success"
         /\ queue'[i].attempt_count >= queue'[i].max_retries
         /\ \E w \in Workers : FailedWrite(w, i)

C5_DeadLetterOnlyAfterLastFailure == [][C5_DeadLetterStep]_vars

\* C6: success is terminal: no step changes the status of a record that is
\* success, none claims it, and no dueRecords query returns it at any time.
C6_SuccessStep ==
  \A i \in Ids :
    (queue[i] # NoRow /\ queue[i].status = "success")
      => (queue'[i].status = "success" /\ claims'[i] = claims[i])

C6_SuccessNeverDue ==
  \A i \in Ids :
    (queue[i] # NoRow /\ queue[i].status = "success")
      => \A t \in 0..(MaxTime + Pow2(MaxRetriesBound)) : i \notin DueIds(queue, t)

C6_SuccessIsTerminal == [](C6_SuccessNeverDue) /\ [][C6_SuccessStep]_vars

\* C7: the stored attempt_count of a record never decreases, in any step.
C7_AttemptCountStep ==
  \A i \in Ids :
    queue[i] # NoRow => queue'[i].attempt_count >= queue[i].attempt_count

C7_AttemptCountNeverDecreases == [][C7_AttemptCountStep]_vars

\* C8: at all times attempt_count is the number of claims that returned the
\* record since it was enqueued (each such claim adds exactly 1).
C8_AttemptCountCountsClaims ==
  \A i \in Ids : queue[i] # NoRow => queue[i].attempt_count = claims[i]

\* a step in which some worker's start-up ran resetStuck(lastMinutes')
ResetStep == \E w \in Workers : pc[w] = "down" /\ pc'[w] = "idle"

\* what resetStuck does to the rows, given which rows count as old enough
ResetEffect(Old(_)) ==
  \A i \in Ids :
    IF queue[i] # NoRow /\ queue[i].status = "processing" /\ Old(queue[i])
    THEN queue'[i].status = "failed" /\ queue'[i].next_attempt_at <= now'
    ELSE queue'[i] = queue[i]

\* C9 (as stated): resetStuck(minutes) moves a record to failed with
\* next_attempt_at <= now exactly when it is processing and its updated_at
\* is older than the threshold; every other record is left untouched.
C9_OlderThan(row) == row.updated_at < now - lastMinutes' * SlotsPerMinute

C9_AtLeastAsOld(row) == row.updated_at <= now - lastMinutes' * SlotsPerMinute

Orphaned(i) ==
  queue[i] # NoRow /\ queue[i].status = "processing" /\ Holders(i) = {}

\* C10: a record left in processing by a crashed worker becomes claimable
\* again (failed, next_attempt_at <= now) through the resetStuck call of the
\* next worker start-up.
C10_StartStep ==
  ResetStep =>
    \A i \in Ids :
      Orphaned(i) =>
        (queue'[i].status = "failed" /\ queue'[i].next_attempt_at <= now')

C10_StartupRecoversOrphans == [][C10_StartStep]_vars

\* C11: a failure that reschedules a record does so base * 2^(attemptCount - 1)
\* after the failure (30 s, 60 s, 120 s, ...), attemptCount being the
\* record's attempt_count, and no such failure writes a next_attempt_at earlier
\* than the one the failure before it had written.  (The instants of one
\* slot are not ordered, so "strictly later" reads "not in an earlier slot".)
C11_BackoffStep ==
  \A i \in Ids : \A w \in Workers :
    (FailedWrite(w, i) /\ queue[i] # NoRow /\ queue'[i].status = "failed")
      => /\ queue'[i].next_attempt_at
              = now + BackoffDelay(queue[i].attempt_count)
         /\ cycles[i] >= 1 =>
               queue'[i].next_attempt_at >= queue[i].next_attempt_at

C11_BackoffSchedule == [][C11_BackoffStep]_vars

\* C12: a record with the default limit of 5 that keeps failing is
\* rescheduled five times, 30 s, 60 s, 120 s, 240 s and 480 s after its
\* first to fifth failure, and is dead_letter only after these five.
C12_FiveBackoffsThenDeadLetter ==
  \A i \in Ids :
    (queue[i] # NoRow /\ queue[i].max_retries = DefaultMaxRetries) =>
      /\ (queue[i].status = "failed" /\ cycles[i] >= 1) =>
            queue[i].next_attempt_at
              = queue[i].updated_at + BackoffDelay(cycles[i])
      /\ queue[i].status = "dead_letter" => cycles[i] - 1 = DefaultMaxRetries

\* the records the table holds for event e and webhook h
RecordsOf(e, h) ==
  {i \in DOMAIN queue :
     queue[i] # NoRow /\ queue[i].payload = e /\ queue[i].webhook_id = h}

\* the (event, webhook) pairs delivered outside the queue
Direct == facade.fell \cup facade.unavailable

C14_NeverRaises == call.raised = "none"

\* a call has returned although fetching the webhooks, or an attempt of
\* its fan-out, had failed
C14_Witness ==
  /\ call.pc = "done"
  /\ call.threw \/ call.failed # {}

\* C15: every active webhook of the list gets exactly one attempt, whatever
\* became of the attempts for the webhooks before it.
C15_FanOutGoesOn ==
  /\ \A h \in HookIds : call.tried[h] <= 1
  /\ (call.pc = "done" /\ ~call.threw) =>
        \A k \in 1..Len(call.list) : call.tried[call.list[k].id] = 1

\* the attempt for the first webhook failed and the last one was attempted
C15_Witness ==
  /\ call.pc = "done"
  /\ Len(call.list) >= 2
  /\ call.list[1].id \in call.failed
  /\ call.tried[call.list[Len(call.list)].id] = 1

\* C16: as long as a record is in the table its payload, webhook_url,
\* webhook_secret and max_retries are those enqueue stored, whatever claim,
\* complete, fail, resetStuck or an edit or deletion of the webhook did
\* since; every POST for a record carries the payload, the url and the
\* secret stored at enqueue.
C16_WriteOnce ==
  /\ \A i \in Ids :
        queue[i] # NoRow =>
          /\ queue[i].payload = enqueued[i].payload
          /\ queue[i].webhook_url = enqueued[i].webhook_url
          /\ queue[i].webhook_secret = enqueued[i].webhook_secret
          /\ queue[i].max_retries = enqueued[i].max_retries
  /\ (sent # NoPost /\ sent.path = "durable") =>
        /\ sent.payload = enqueued[sent.id].payload
        /\ sent.url = enqueued[sent.id].webhook_url
        /\ sent.headers = DeliveryHeaders(enqueued[sent.id].webhook_secret)

\* the webhook was given another url and secret after the enqueue, and the
\* record, claimed, failed and claimed again, has been posted a second time
C16_Witness ==
  /\ sent # NoPost /\ hooks[sent.hook] # NoHook
  /\ hooks[sent.hook].url # sent.url
  /\ hooks[sent.hook].secret # enqueued[sent.id].webhook_secret
  /\ queue[sent.id] # NoRow
  /\ queue[sent.id].attempt_count >= 2
  /\ cycles[sent.id] >= 1 /\ posts[sent.id] >= 2

\* the step of an enqueue call, and what the call answered
EnqueueCall == calc' # calc /\ calc'.op = "enqueue"

\* C17: enqueue inserts the record and returns it unless the request fails;
\* when the table is missing it inserts nothing and throws
\* MissingWebhookQueueTableError, and on any other storage error it inserts
\* nothing and throws an error that is not that one.
C17_EnqueueStep ==
  EnqueueCall =>
    LET ret == calc'.ret
        thrown == calc'.thrown
    IN /\ calc'.err = "none" =>
             /\ thrown = "none" /\ ret # Null
             /\ queue[ret.id] = NoRow /\ queue' = [queue EXCEPT ![ret.id] = ret]
             /\ ret.status = "pending" /\ ret.attempt_count = 0
             /\ ret.payload = call.payload
             /\ ret.webhook_id = Head(call.todo).id
       /\ calc'.err = "missing" =>
             thrown = "MissingWebhookQueueTableError" /\ queue' = queue
       /\ calc'.err = "other" =>
             /\ thrown \notin {"none", "MissingWebhookQueueTableError"}
             /\ queue' = queue

C17_EnqueueAnswers == [][C17_EnqueueStep]_vars

\* one call of a fan-out was refused by the missing table after another
\* had inserted its record
C17_Witness ==
  /\ calc.op = "enqueue" /\ calc.err = "missing"
  /\ \E i \in DOMAIN queue : queue[i] # NoRow /\ queue[i].payload = call.payload

C19_SecretHeader ==
  sent # NoPost =>
    LET secret == hooks[sent.hook].secret
    IN /\ secret # "null" => <<"X-Webhook-Secret", secret>> \in sent.headers
       /\ secret = "null" =>
             \A hd \in sent.headers : hd[1] # "X-Webhook-Secret"

\* C20: the records returned are rows of the table in status pending or
\* failed with next_attempt_at <= now, at most limit of them, each once, in
\* ascending order of next_attempt_at; a due record is left out only when
\* limit records are returned, none of them due later than it.
C20_OldestDueFirst ==
  calc.op = "due" =>
    LET rows == calc.rows
        n == Len(rows)
        got == {rows[k].id : k \in 1..n}
    IN /\ n <= calc.limit
       /\ \A k \in 1..n :
             /\ rows[k] = queue[rows[k].id]
             /\ rows[k].status \in {"pending", "failed"}
             /\ rows[k].next_attempt_at <= now
       /\ \A j, k \in 1..n :
             j < k => /\ rows[j].id # rows[k].id
                      /\ rows[j].next_attempt_at <= rows[k].next_attempt_at
       /\ \A i \in DOMAIN queue :
             (/\ queue[i] # NoRow
              /\ queue[i].status \in {"pending", "failed"}
              /\ queue[i].next_attempt_at <= now
              /\ i \notin got)
               => /\ n = calc.limit
                  /\ \A k \in 1..n :
                        rows[k].next_attempt_at <= queue[i].next_attempt_at

\* three records are due at different instants and the two oldest of them
\* have been returned, in that order
C20_Witness ==
  /\ calc.op = "due" /\ calc.limit = 2 /\ Len(calc.rows) = 2
  /\ calc.rows[1].next_attempt_at < calc.rows[2].next_attempt_at
  /\ \E i \in DOMAIN queue :
       /\ queue[i] # NoRow /\ queue[i].status \in {"pending", "failed"}
       /\ queue[i].next_attempt_at <= now
       /\ queue[i].next_attempt_at > calc.rows[2].next_attempt_at

\* a step in which a claim on record i returned the record
ClaimWon(i) == claims'[i] = claims[i] + 1

\* C21: a claim returns a record only when now >= the next_attempt_at the
\* record holds at that instant, also when the claimant read the record
\* before another worker failed and rescheduled it.
C21_ClaimStep ==
  \A i \in Ids :
    (queue[i] # NoRow /\ ClaimWon(i)) => queue[i].next_attempt_at <= now

C21_ClaimOnlyWhenDue == [][C21_ClaimStep]_vars

\* C22: every store operation called while the table is missing throws
\* MissingWebhookQueueTableError to its caller: none of them answers with
\* an empty list, null or false instead.
C22_MissingTableIsRaised ==
  (calc.op \in {"enqueue", "dueRecords", "claim", "complete", "fail",
                "resetStuck", "queueStats"} /\ calc.err = "missing")
    => calc.thrown = "MissingWebhookQueueTableError"

\* the step in which worker w writes back the outcome of a successful
\* attempt on record i
SuccessWrite(w, i) ==
  /\ pc[w] = "write" /\ pc'[w] \in {"idle", "batch"}
  /\ cur[w].id = i
  /\ IsSuccess(outcome[w])

\* C23: complete sets the status to success, stores the status code of the
\* response and clears last_error, and leaves attempt_count,
\* next_attempt_at, the payload and the webhook snapshot as they were; a
\* record whose first attempt was answered 200 is success with
\* response_status 200 once the tick has written it back.
C23_CompleteStep ==
  \A i \in Ids : \A w \in Workers :
    (SuccessWrite(w, i) /\ queue[i] # NoRow)
      => queue'[i] = [queue[i] EXCEPT !.status = "success",
                                       !.response_status = outcome[w],
                                       !.last_error = "null",
                                       !.updated_at = now]

C23_CompleteFrame == [][C23_CompleteStep]_vars

\* the first attempt of a record was answered 200 and the record is success
C23_Witness ==
  \E i \in Ids :
    /\ queue[i] # NoRow /\ claims[i] = 1 /\ posts[i] = 1 /\ cycles[i] = 0
    /\ queue[i].status = "success" /\ queue[i].response_status = 200
    /\ queue[i].attempt_count = 1 /\ queue[i].last_error = "null"
    /\ queue[i].payload = enqueued[i].payload
    /\ queue[i].next_attempt_at = enqueued[i].next_attempt_at

\* C24: fail sets the status to dead_letter when told so and to failed
\* otherwise, stores the error message as last_error and the given
\* next_attempt_at, and, when the failed attempt was answered with an HTTP
\* status, stores that status as the response_status of the record.
C24_FailStep ==
  \A i \in Ids : \A w \in Workers :
    (FailedWrite(w, i) /\ queue[i] # NoRow) =>
      LET d == Decide(cur[w].attempt_count, cur[w].max_retries, now)
      IN /\ queue'[i].status = IF d.deadLetter THEN "dead_letter" ELSE "failed"
         /\ queue'[i].last_error = ErrorMessage(outcome[w])
         /\ queue'[i].next_attempt_at = d.nextAttemptAt
         /\ outcome[w] # 0 => queue'[i].response_status = outcome[w]

C24_FailStoresTheOutcome == [][C24_FailStep]_vars

\* C25: the status of every record of the table is one of pending,
\* processing, success, failed and dead_letter at all times, whichever
\* store of the repository writes it.
C25_StatusIsOfTheEnum ==
  \A i \in DOMAIN queue : queue[i] # NoRow => queue[i].status \in Statuses

\* C26: once an enqueue of a process has met the missing table, every later
\* delivery of that process goes by direct POST with no enqueue call, until
\* the process ends; a process started afterwards has remembered nothing
\* and calls enqueue again.  A process on the inline fallback never calls
\* enqueue.
C26_CacheStep ==
  /\ (EnqueueCall /\ calc'.thrown = "MissingWebhookQueueTableError")
        => facade'.degraded
  /\ (facade.degraded /\ ~Restart)
        => (facade'.degraded /\ ~EnqueueCall /\ queue' = queue)
  /\ Restart => ~facade'.degraded
  /\ facade.svc = "inline" => (~EnqueueCall /\ queue' = queue)

C26_UnavailableIsCached == [][C26_CacheStep]_vars

\* after the process had found the table missing it sent a later event by
\* direct POST without a call to enqueue: the last enqueue call is still the
\* one that met the missing table, made for an earlier event
C26_Witness ==
  /\ facade.degraded /\ call.pc = "done"
  /\ calc.op = "enqueue" /\ calc.thrown = "MissingWebhookQueueTableError"
  /\ \E pair \in facade.unavailable :
       /\ pair[1] < call.payload
       /\ \E h \in HookIds : /\ <<call.payload, h>> \in facade.fell
                             /\ <<call.payload, h>> \notin facade.unavailable

\* the ids of the records still waiting in the batch of worker w
Waiting(w) == {batch[w][k].id : k \in 1..Len(batch[w])}

\* while a tick is under way every record it read has had its claim call
\* or is still to have it, and the record in hand has been claimed
C27_InTick ==
  \A w \in Workers :
    /\ pc[w] \in {"batch", "attempt", "write"} =>
          /\ \A k \in 1..Len(trail[w].list) :
                trail[w].list[k] \in trail[w].called \cup Waiting(w)
          /\ trail[w].tried \subseteq trail[w].called
    /\ pc[w] = "attempt" => cur[w].id \in trail[w].called
    /\ pc[w] = "write" => cur[w].id \in trail[w].tried
    /\ pc[w] = "idle" => batch[w] = <<>>

\* a tick ends only with the last record it read
C27_TickEnd ==
  \A w \in Workers :
    (pc[w] \in {"batch", "write"} /\ pc'[w] = "idle") =>
      LET inHand == IF pc[w] = "batch" THEN Head(batch[w]).id ELSE cur[w].id
      IN \A k \in 1..Len(trail[w].list) :
            trail[w].list[k] \in trail[w].called \cup {inHand}

\* C27: whatever fails while a tick processes one record (the claim, the
\* POST, the complete or fail write), the tick goes on: every record it
\* read gets its claim call, and its POST when the claim returns it, before
\* the tick ends.
C27_RecordsAreIsolated == [](C27_InTick) /\ [][C27_TickEnd]_vars

\* the processing of the first record of a tick met a fault and the second
\* one has been claimed and posted
C27_Witness ==
  \E w \in Workers :
    /\ pc[w] = "write" /\ Len(trail[w].list) = 2
    /\ trail[w].list[1] \in trail[w].faults
    /\ cur[w].id = trail[w].list[2]
    /\ trail[w].list[2] \in trail[w].tried

\* C28: a tick that fails as a whole, the store not answering its read of
\* the due records, leaves the process running and the timer set: unless
\* stop() was called, the worker is idle or busy with a later tick, and
\* idle, its next tick can run.
C28_LoopSurvivesFailedTick ==
  \A w \in Workers :
    (trail[w].missed /\ ~trail[w].stopped) =>
      /\ pc[w] # "down"
      /\ pc[w] = "idle" => ENABLED Poll(w)

\* after a tick that failed as a whole, a later tick has read a record,
\* claimed it and posted it
C28_Witness ==
  \E w \in Workers :
    /\ trail[w].missed /\ ~trail[w].stopped
    /\ pc[w] = "write" /\ cur[w].id \in trail[w].tried

\* once stop() has returned, worker w starts no tick and claims no record
C29_AfterStop ==
  \A w \in Workers :
    trail[w].stopped =>
      /\ ~(pc[w] = "idle" /\ pc'[w] = "batch")
      /\ ~(pc[w] = "batch" /\ pc'[w] = "attempt")

\* stop() cancels nothing that is under way: the POST can still be answered
\* and its outcome written
C29_InFlight ==
  \A w \in Workers :
    trail[w].stopped =>
      /\ pc[w] = "attempt" => ENABLED Deliver(w)
      /\ pc[w] = "write" => ENABLED Settle(w)

\* a record left in processing when the process ended is failed and due
\* again after the resetStuck call of the next start-up
C29_Recovered ==
  ResetStep =>
    \A i \in DOMAIN queue :
      Orphaned(i) =>
        (queue'[i].status = "failed" /\ queue'[i].next_attempt_at <= now')

\* C29: after stop() the worker starts no new tick and claims no new
\* record, an attempt under way is not cancelled, and a record whose outcome
\* was not written because the process ended is made claimable again by the
\* resetStuck call of the next start-up.
C29_StopAndRecovery ==
  [](C29_InFlight) /\ [][C29_AfterStop /\ C29_Recovered]_vars

\* a running worker has called resetStuck once since its process started
C30_OncePerStart ==
  \A w \in Workers : pc[w] # "down" => trail[w].resets = 1

\* only a start-up calls resetStuck: no other step counts a call or
\* recovers a record
C30_OnlyAtStart ==
  /\ \A w \in Workers :
        trail'[w].resets > trail[w].resets => (pc[w] = "down" /\ pc'[w] = "idle")
  /\ \A i \in DOMAIN queue :
        (/\ queue[i] # NoRow /\ queue[i].status = "processing"
         /\ queue'[i] # NoRow /\ queue'[i].status = "failed"
         /\ queue'[i].last_error = "recovered") => ResetStep

\* C30: start() calls resetStuck exactly once, before the worker's first
\* tick claims a record, and no tick calls it afterwards.
C30_ResetStuckOnceAtStart == [](C30_OncePerStart) /\ [][C30_OnlyAtStart]_vars

\* a worker that swept once at start-up is at its second record
C30_Witness ==
  \E w \in Workers :
    /\ trail[w].resets = 1 /\ lastMinutes >= 1
    /\ pc[w] = "write"
    /\ \E i \in DOMAIN queue : i # cur[w].id /\ posts[i] >= 1

\* the POSTs the service is awaiting: one per run of the timer callback
\* that has claimed a record and not yet been answered
InFlight == {w \in Workers : pc[w] = "attempt"}

\* C31: the delivery attempts one worker instance has in flight never
\* exceed the batch limit, also when a slow tick is overtaken by the next
\* firing of the timer.
C31_InFlightWithinBatchLimit == Cardinality(InFlight) <= BatchLimit

\* the call has gone through its list in durable mode: the service is
\* loaded, no enqueue of the call failed and none fell back to a direct POST
DurableCall ==
  /\ call.pc = "done" /\ ~call.threw
  /\ facade.svc = "service"
  /\ call.failed = {}
  /\ \A h \in HookIds : call.posted[h] = 0

\* C32: in durable mode queueDeliveries with N active webhooks creates
\* exactly N records, one per webhook of the list, each of them pending,
\* with attempt_count 0, next_attempt_at not after now, and the url and the
\* secret (or null) of its webhook.
C32_OneRecordPerWebhook ==
  DurableCall =>
    /\ Cardinality({i \in DOMAIN queue :
                      queue[i] # NoRow /\ queue[i].payload = call.payload})
         = Len(call.list)
    /\ \A k \in 1..Len(call.list) :
          LET w == call.list[k]
              made == RecordsOf(call.payload, w.id)
          IN /\ Cardinality(made) = 1
             /\ \A i \in made :
                   /\ queue[i].status = "pending"
                   /\ queue[i].attempt_count = 0
                   /\ queue[i].next_attempt_at <= now
                   /\ queue[i].webhook_url = w.url
                   /\ queue[i].webhook_secret = w.secret

\* a call with two active webhooks, one with a secret and one without, has
\* returned in durable mode some time after the clock started
C32_Witness ==
  /\ DurableCall
  /\ Len(call.list) = 2
  /\ call.list[1].secret # call.list[2].secret
  /\ now > 0
  /\ \E i \in DOMAIN queue : queue[i] # NoRow /\ queue[i].next_attempt_at > 0

\* the record has reached a status it is not retried from
Terminal(i) == queue[i] # NoRow /\ queue[i].status \in {"success", "dead_letter"}

\* C33: under a running worker that is scheduled fairly every enqueued
\* record eventually reaches success or dead_letter; none stays pending,
\* processing or failed for ever.
C33_EveryRecordEnds == \A i \in Ids : (queue[i] # NoRow) ~> Terminal(i)

\* C34: in every reachable state every record has attempt_count <=
\* max_retries, also a record that resetStuck returned to failed after its
\* last permitted attempt had been claimed.
C34_AttemptCountWithinMaxRetries ==
  \A i \in Ids :
    queue[i] # NoRow => queue[i].attempt_count <= queue[i].max_retries

\* worker w writes the outcome of its attempt back
Writes(w) == pc[w] = "write" /\ pc'[w] \in {"idle", "batch"}

\* the record held by worker w has been claimed again since w claimed it
Revoked(w) ==
  /\ queue[cur[w].id] # NoRow
  /\ queue[cur[w].id].attempt_count > cur[w].attempt_count

\* a status changes along the state machine only
C35_StatusStep ==
  \A i \in Ids :
    (queue[i] # NoRow /\ queue'[i] # NoRow
       /\ queue'[i].status # queue[i].status) =>
      /\ queue[i].status \notin {"success", "dead_letter"}
      /\ queue'[i].status = "processing" => queue[i].status \in Claimable
      /\ queue'[i].status \in {"success", "failed", "dead_letter"} =>
            queue[i].status = "processing"

\* the write of a worker whose claim was revoked leaves the record alone
C35_RevokedStep ==
  \A w \in Workers :
    (Writes(w) /\ Revoked(w)) => queue'[cur[w].id] = queue[cur[w].id]

\* C35: a record becomes processing only from pending or failed, becomes
\* success, failed or dead_letter only from processing, and never leaves
\* success or dead_letter; complete and fail called by a worker whose claim
\* resetStuck had revoked, the record having been claimed again since, do
\* not alter the record.
C35_StateMachine == [][C35_StatusStep /\ C35_RevokedStep]_vars

\* how often x occurs in the sequence s
Count(s, x) == Cardinality({k \in DOMAIN s : s[k] = x})

\* the messages of the inserts awaited, batch after batch
RECURSIVE Flat(_)
Flat(batches) ==
  IF batches = <<>> THEN <<>> ELSE Head(batches) \o Flat(Tail(batches))

\* s lists messages in the order they were added
InOrder(s) == \A j, k \in DOMAIN s : j < k => s[j] < s[k]

\* C36: MessageQueue loses and duplicates no message: every message added
\* is in the queue, in the batch being inserted, or in message_logs, once in
\* all, so that with no flush under way it is still queued or was inserted
\* exactly once; a batch whose insert failed is back at the front of the
\* queue in its original order, ahead of the messages added meanwhile.
C36_NoLossNoDuplicate ==
  /\ \A x \in 1..MaxMessages :
        Count(mq.queue, x) + Count(Flat(mq.flying), x) + Count(mq.logs, x)
          = IF x <= mq.added THEN 1 ELSE 0
  /\ InOrder(mq.queue)
  /\ mq.last.op = "insert" /\ mq.last.result # "ok" =>
        /\ Len(mq.queue) >= Len(mq.last.batch)
        /\ SubSeq(mq.queue, 1, Len(mq.last.batch)) = mq.last.batch

\* the insert of a batch has failed after an earlier one was stored, and
\* the batch is back in a queue that got another message during the flush
C36_Witness ==
  /\ mq.last.op = "insert" /\ mq.last.result = "threw"
  /\ Len(mq.last.batch) = BatchSize
  /\ Len(mq.queue) > BatchSize
  /\ mq.logs # <<>>

\* a call that leads to flush was made while a flush was under way
Busy == mq'.last.op \in {"add", "flush"} /\ mq'.last.busy

\* such a call removes nothing from the queue and sends no insert
C37_BusyStep ==
  Busy => /\ mq'.flying = mq.flying
          /\ \A k \in DOMAIN mq.queue : mq'.queue[k] = mq.queue[k]
          /\ Len(mq'.queue) >= Len(mq.queue)

\* every end of a flush resets the flag
C37_EndStep == mq'.last.op = "insert" /\ mq'.last # mq.last => ~mq'.processing

\* C37: at most one flush is in progress at any time: a flush triggered by
\* the timer or by add while another awaits its insert removes nothing from
\* the queue, and the processing flag is false again after every flush,
\* whether its insert succeeded, returned an error or threw.
C37_OneFlushAtATime ==
  /\ [](Len(mq.flying) <= 1 /\ (mq.processing <=> mq.flying # <<>>))
  /\ [][C37_BusyStep /\ C37_EndStep]_vars

\* add has brought the queue to batchSize while a flush was awaiting its
\* insert, so that the flush it called had a batch to take
C37_Witness ==
  /\ mq.last.op = "add" /\ mq.last.busy
  /\ Len(mq.queue) >= BatchSize
  /\ mq.processing

\* what the sweep of the lite store makes of the table as it is
C38_Swept == liteResetStuckWebhookDeliveries(queue, now, "none").q

\* the sweep changes the processing records only: they become pending with
\* their attempts, next_retry_at and payload as they were
C38_ResetFrame ==
  \A i \in Ids :
    queue[i] # NoRow =>
      IF queue[i].status = "processing"
      THEN /\ C38_Swept[i].status = "pending"
           /\ C38_Swept[i].attempts = queue[i].attempts
           /\ C38_Swept[i].next_retry_at = queue[i].next_retry_at
           /\ C38_Swept[i].payload = queue[i].payload
      ELSE C38_Swept[i] = queue[i]

\* failWebhookDelivery has given the record up
GivenUp(i) == queue[i] # NoRow /\ queue[i].status = "failed"

\* a record whose attempts have reached max_retries is not retried: only
\* failWebhookDelivery writes attempts, and only completeWebhookDelivery can
\* write to the record after that
C38_SpentIsGivenUp ==
  \A i \in Ids :
    (queue[i] # NoRow /\ queue[i].attempts >= queue[i].max_retries) =>
      queue[i].status \in {"failed", "completed"}

\* C38: in the lite store resetStuckWebhookDeliveries changes the processing
\* records only, to pending, with attempts, next_retry_at and payload left
\* as they were; and a record whose failWebhookDelivery brought attempts to
\* max_retries or more is failed and never among the due records again.
C38_LiteResetAndGiveUp ==
  /\ [](C38_ResetFrame /\ C38_SpentIsGivenUp)
  /\ \A i \in Ids : [](GivenUp(i) => [](~liteIsDue(queue[i], now)))

\* the errors that are not to be tried again: neither a 5xx of the storage
\* layer nor a failure of the network
Fatal(error) == error.code \in {"PGRST116", "23505"}

\* withRetry has returned or thrown
Over == calc.pc \in {"returned", "thrown"}

\* fn was called at most maxRetries times, every call but the last failed,
\* and no call followed an error that is not to be tried again
C39_Calls ==
  /\ calc.calls <= calc.maxRetries
  /\ Len(calc.failed) \in {calc.calls - 1, calc.calls}
  /\ \A k \in 1..Len(calc.failed) : Fatal(calc.failed[k]) => k = calc.calls

\* it returns after the first call that succeeded; it throws the error of
\* its last call, which is not to be tried again or was the maxRetries-th
C39_Outcome ==
  /\ calc.pc = "returned" => calc.calls = Len(calc.failed) + 1
  /\ (calc.pc # "returned" /\ calc.pc # "try") => calc.calls = Len(calc.failed)
  /\ (calc.pc = "thrown" /\ calc.calls > 0) =>
        /\ calc.lastError = calc.failed[calc.calls]
        /\ Fatal(calc.lastError) \/ calc.calls = calc.maxRetries
  /\ \A k \in 1..Len(calc.failed) :
        Fatal(calc.failed[k]) => calc.pc = "thrown"

\* one wait between two calls: 1 s, then twice the wait before
C39_Waits ==
  /\ Len(calc.waits) = (IF calc.pc = "try" \/ calc.calls = 0
                        THEN calc.calls
                        ELSE IF calc.pc = "wait" THEN calc.calls
                        ELSE calc.calls - 1)
  /\ \A k \in 1..Len(calc.waits) :
        calc.waits[k] = IF k = 1 THEN 1000 ELSE 2 * calc.waits[k - 1]

\* C39: withRetry(fn, name, maxRetries) calls fn at most maxRetries times and
\* always ends: it returns the result of the first call that succeeds,
\* rethrows at once an error that is not retryable, and rethrows the last
\* error after the maxRetries-th failed call; the waits between the calls
\* are 1 s, 2 s, 4 s, doubling.
C39_WithRetry == [](C39_Calls /\ C39_Outcome /\ C39_Waits) /\ <>Over

\* the third call of withRetry(fn, name, 3) has failed with a retryable
\* error like the two before it, and the error is rethrown
C39_Witness ==
  /\ calc.pc = "thrown" /\ calc.maxRetries = 3 /\ calc.calls = 3
  /\ calc.waits = <<1000, 2000>>
  /\ ~Fatal(calc.lastError)
====
